---------------------------- MODULE Spec2Model ----------------------------
(***************************************************************************)
(* Connectome-MS-Analysis: the batch metric scripts                        *)
(* (global_efficiency.py, characteristic_path_lengh.py,                    *)
(* clustering_coefficient.py, modularity.py, node_strength.py) and the     *)
(* preprocessing functions they share.                                     *)
(*                                                                         *)
(* Representation.                                                         *)
(*  - A Python str is a sequence of characters; a character is a one-      *)
(*    character string, except three that are written as tokens: "LF"      *)
(*    (U+000A), "LONGS" (U+017F, LATIN SMALL LETTER LONG S) and "KELVIN"   *)
(*    (U+212A, KELVIN SIGN).                                               *)
(*  - A float read from a CSV is a record [k, v]: k is "fin" (the integer   *)
(*    v), "nan", "pinf" or "ninf".  A matrix is a record [n, a, den]: the  *)
(*    entry at (i, j) is a[i][j] / den, indices from 1.  The loaders'      *)
(*    0.5 * (W + W.T) doubles den instead of halving a, and                *)
(*    maybe_normalize multiplies den by the maximum, so both are exact.    *)
(*    Once cleaned of NaN and Inf the entries a[i][j] are plain integers.  *)
(*  - A density is a pair <<num, den>> of naturals, compared by cross      *)
(*    multiplication.                                                      *)
(***************************************************************************)
EXTENDS Integers, Sequences, FiniteSets, TLC

VARIABLES
    pc,         \* where the script (or the function examined) stands
    script,     \* which of the five metric scripts runs
    listing,    \* os.listdir(BASE): the names in the directory
    files,      \* the sorted list the loop iterates over
    fileNo,     \* how many entries of files the loop has taken
    cur,        \* subject, method, group and name of the file in hand
    steps,      \* the stages done for the file in hand, in order
    W,          \* the matrix of the file in hand
    used,       \* (target_used, avail) of modularity.py
    metric,     \* the metric computed for the file in hand
    rows,       \* the rows accumulated in memory
    csv,        \* the rows of the output CSV once written
    csvWrites,  \* how many times the output CSV was written
    exc,        \* the kind of the last exception raised
    failed,     \* the files whose metric computation raised, by row number
    inp,        \* the argument of the function examined
    out         \* its result

vars == <<pc, script, listing, files, fileNo, cur, steps, W, used, metric,
          rows, csv, csvWrites, exc, failed, inp, out>>

None == "None"

-----------------------------------------------------------------------------
(* Bounds of the model.                                                    *)

\* The longest subject id of a candidate file name, and the longest subject
\* string handed to infer_group.
MaxIdLen == 2
MaxSubjLen == 3
\* The largest CSV read by a loader, and the largest finite count in it.
MaxLoadN == 2
MaxRaw == 1
\* The most nodes and the largest weight of a cleaned matrix, and the
\* largest knn_k.
MaxN == 3
MaxW == 2
MaxK == 2
\* The nodes of the ring-shaped matrices given to threshold_to_target_density.
RingN == 4
\* The most entries of the directory a batch run scans.
MaxFiles == 3

-----------------------------------------------------------------------------
(* Characters and Python's str methods on them.                            *)

UpperCase == <<"A", "C", "D", "E", "I", "K", "N", "P", "R", "S", "T", "V", "X">>
LowerCase == <<"a", "c", "d", "e", "i", "k", "n", "p", "r", "s", "t", "v", "x">>

\* The characters of the model in ascending code point order.
CodeOrder == <<"LF", ".", "1", "2">> \o UpperCase \o <<"_">> \o LowerCase
                \o <<"LONGS", "KELVIN">>

Ord(c) == CHOOSE k \in 1..Len(CodeOrder) : CodeOrder[k] = c

IndexIn(seq, c) == CHOOSE k \in 1..Len(seq) : seq[k] = c

IsIn(seq, c) == \E k \in 1..Len(seq) : seq[k] = c

\* str.upper() of one character: U+017F upper-cases to "S", U+212A is
\* already upper case.
CharUpper(c) ==
    IF IsIn(LowerCase, c) THEN UpperCase[IndexIn(LowerCase, c)]
    ELSE IF c = "LONGS" THEN "S"
    ELSE c

\* str.lower() of one character: U+212A lower-cases to "k", U+017F is
\* already lower case.
CharLower(c) ==
    IF IsIn(UpperCase, c) THEN LowerCase[IndexIn(UpperCase, c)]
    ELSE IF c = "KELVIN" THEN "k"
    ELSE c

StrUpper(s) == [k \in 1..Len(s) |-> CharUpper(s[k])]

StrLower(s) == [k \in 1..Len(s) |-> CharLower(s[k])]

\* f.lower().endswith(".csv")
EndsWithCsv(s) ==
    /\ Len(s) >= 4
    /\ SubSeq(StrLower(s), Len(s) - 3, Len(s)) = <<".", "c", "s", "v">>

\* The folding re.IGNORECASE compares characters under: the simple lower
\* case, with U+017F equivalent to "s" (and U+212A lower-casing to "k").
SreFold(c) ==
    IF c = "LONGS" THEN "s" ELSE CharLower(c)

\* A literal of the pattern matched case-insensitively at position pos.
MatchLit(s, pos, lit) ==
    /\ pos + Len(lit) - 1 <= Len(s)
    /\ \A k \in 1..Len(lit) : SreFold(s[pos + k - 1]) = SreFold(lit[k])

LitPrefix == <<"I", "N", "s", "I", "D", "E", "R", "_">>
LitACT == <<"A", "C", "T">>
LitTREKKER == <<"T", "R", "E", "K", "K", "E", "R">>
LitCsv == <<".", "c", "s", "v">>

\* "$" without re.MULTILINE: at the end, or before a line feed that ends
\* the string.
AtDollar(s, pos) ==
    \/ pos = Len(s) + 1
    \/ pos = Len(s) /\ s[pos] = "LF"

\* The tail "(ACT|TREKKER)\.csv$" at position pos, for one alternative.
MatchTail(s, pos, alt) ==
    /\ MatchLit(s, pos, alt)
    /\ MatchLit(s, pos + Len(alt), LitCsv)
    /\ AtDollar(s, pos + Len(alt) + 4)

\* What FILE_RE.match returns for a name the pattern does not match.
NoMatch == <<>>

\* FILE_RE.match(s): NoMatch, or the groups <<subject, method>>.
\* "[^_]+" is greedy and followed by "_", so it ends at the first "_"
\* after the prefix.
FILE_RE_match(s) ==
    IF ~MatchLit(s, 1, LitPrefix) THEN NoMatch
    ELSE LET us == {k \in 9..Len(s) : s[k] = "_"}
         IN  IF us = {} THEN NoMatch
             ELSE LET u == CHOOSE k \in us : \A l \in us : k <= l
                  IN  IF u = 9 THEN NoMatch
                      ELSE IF MatchTail(s, u + 1, LitACT)
                           THEN <<SubSeq(s, 1, u - 1), SubSeq(s, u + 1, u + 3)>>
                      ELSE IF MatchTail(s, u + 1, LitTREKKER)
                           THEN <<SubSeq(s, 1, u - 1), SubSeq(s, u + 1, u + 7)>>
                      ELSE NoMatch


\* subj.split("_", 1): the parts around the first "_", or the whole string.
Split1(s) ==
    LET us == {k \in 1..Len(s) : s[k] = "_"}
    IN  IF us = {} THEN <<s>>
        ELSE LET u == CHOOSE k \in us : \A l \in us : k <= l
             IN  <<SubSeq(s, 1, u - 1), SubSeq(s, u + 1, Len(s))>>

\* subj.split("_", 1)[1][0].upper(), or "IndexError" where an index is out
\* of range (every copy catches it).
TagOf(subj) ==
    LET parts == Split1(subj)
    IN  IF Len(parts) < 2 THEN "IndexError"
        ELSE IF Len(parts[2]) = 0 THEN "IndexError"
        ELSE CharUpper(parts[2][1])

\* global_efficiency.py
infer_group_global_efficiency(subj) ==
    LET tag == TagOf(subj)
    IN  IF tag = "IndexError" THEN None
        ELSE IF tag = "C" THEN "control"
        ELSE IF tag = "P" THEN "patient"
        ELSE None

\* characteristic_path_lengh.py
infer_group_char_path(subj) ==
    LET tag == TagOf(subj)
    IN  IF tag = "IndexError" THEN None
        ELSE IF tag = "C" THEN "control"
        ELSE IF tag = "P" THEN "patient"
        ELSE None

\* load_csv.py
infer_group_from_subject(subj) ==
    LET parts == Split1(subj)
    IN  IF Len(parts) < 2 THEN None
        ELSE LET after_underscore == parts[2]
             IN  IF Len(after_underscore) = 0 THEN None
                 ELSE LET first == CharUpper(after_underscore[1])
                      IN  IF first = "C" THEN "control"
                          ELSE IF first = "P" THEN "patient"
                          ELSE None

\* infer_group without .upper(): a lower-case tag is not recognised.
infer_group_case_sensitive(subj) ==
    LET parts == Split1(subj)
    IN  IF Len(parts) < 2 \/ Len(parts[Len(parts)]) = 0 THEN None
        ELSE IF parts[2][1] = "C" THEN "control"
        ELSE (IF parts[2][1] = "P" THEN "patient" ELSE None)

\* modularity.py
infer_group_modularity(subj) ==
    LET ch == TagOf(subj)
    IN  IF ch = "IndexError" THEN None
        ELSE IF ch = "C" THEN "control"
        ELSE (IF ch = "P" THEN "patient" ELSE None)

\* node_strength.py
infer_group_node_strength(subj) ==
    LET ch == TagOf(subj)
    IN  IF ch = "IndexError" THEN None
        ELSE IF ch = "C" THEN "control"
        ELSE (IF ch = "P" THEN "patient" ELSE None)

\* clustering_coefficient.py
infer_group_clustering(subj) ==
    LET ch == TagOf(subj)
    IN  IF ch = "IndexError" THEN None
        ELSE IF ch = "C" THEN "control"
        ELSE (IF ch = "P" THEN "patient" ELSE None)

Scripts == {"global_efficiency", "char_path", "clustering", "modularity",
            "node_strength"}

infer_group(s, subj) ==
    CASE s = "global_efficiency" -> infer_group_global_efficiency(subj)
      [] s = "char_path" -> infer_group_char_path(subj)
      [] s = "clustering" -> infer_group_clustering(subj)
      [] s = "modularity" -> infer_group_modularity(subj)
      [] s = "node_strength" -> infer_group_node_strength(subj)

\* Whether script s hands file name f to its loop body.  global_efficiency
\* and characteristic_path_lengh first keep the names whose lower case
\* ends with ".csv"; the others test FILE_RE alone.
Processes(s, f) ==
    IF s \in {"global_efficiency", "char_path"}
    THEN EndsWithCsv(f) /\ FILE_RE_match(f) # NoMatch
    ELSE FILE_RE_match(f) # NoMatch

\* The metadata the loop body derives from a processed file name.
MetaOf(s, f) ==
    LET g == FILE_RE_match(f)
    IN  [subject |-> g[1], method |-> StrUpper(g[2]),
         group |-> infer_group(s, g[1]), file |-> f]


-----------------------------------------------------------------------------
(* Floats as pandas reads them, and the loaders.                           *)

Fin(v) == [k |-> "fin", v |-> v]
FNaN == [k |-> "nan", v |-> 0]
FPosInf == [k |-> "pinf", v |-> 0]
FNegInf == [k |-> "ninf", v |-> 0]

\* IEEE addition: NaN is contagious and the infinities of opposite sign add
\* to NaN.
FAdd(x, y) ==
    IF x.k = "nan" \/ y.k = "nan" THEN FNaN
    ELSE IF x.k = "fin" /\ y.k = "fin" THEN Fin(x.v + y.v)
    ELSE IF x.k = "fin" THEN y
    ELSE IF y.k = "fin" THEN x
    ELSE IF x.k = y.k THEN x
    ELSE FNaN

\* x < 0 (False for NaN)
FLt0(x) == x.k = "ninf" \/ (x.k = "fin" /\ x.v < 0)

\* x >= 0 (False for NaN)
FGe0(x) == x.k = "pinf" \/ (x.k = "fin" /\ x.v >= 0)

\* x == y (False when either is NaN)
FEq(x, y) == x.k # "nan" /\ y.k # "nan" /\ x = y

\* W = 0.5 * (W + W.T): the sums, over a denominator doubled.
Symmetrize(M) ==
    [n |-> M.n,
     a |-> [i \in 1..M.n |-> [j \in 1..M.n |-> FAdd(M.a[i][j], M.a[j][i])]],
     den |-> 2 * M.den]

\* np.fill_diagonal(W, 0.0)
FillDiagonal(M) ==
    [M EXCEPT !.a = [i \in 1..M.n |-> [j \in 1..M.n |->
                        IF i = j THEN Fin(0) ELSE M.a[i][j]]]]

\* W[W < 0] = 0.0
ClampNegatives(M) ==
    [M EXCEPT !.a = [i \in 1..M.n |-> [j \in 1..M.n |->
                        IF FLt0(M.a[i][j]) THEN Fin(0) ELSE M.a[i][j]]]]

\* np.nan_to_num(W, nan=0.0, posinf=0.0, neginf=0.0)
NanToNum(M) ==
    [M EXCEPT !.a = [i \in 1..M.n |-> [j \in 1..M.n |->
                        IF M.a[i][j].k = "fin" THEN M.a[i][j] ELSE Fin(0)]]]

\* global_efficiency.py
load_and_clean_matrix(raw) == ClampNegatives(FillDiagonal(Symmetrize(raw)))

\* characteristic_path_lengh.py
load_and_clean_W(raw) == ClampNegatives(FillDiagonal(Symmetrize(raw)))

\* node_strength.py
load_W_node_strength(raw) == ClampNegatives(FillDiagonal(Symmetrize(raw)))

\* clustering_coefficient.py
load_W_clustering(raw) == ClampNegatives(FillDiagonal(Symmetrize(raw)))

\* modularity.py
load_W_csv(raw) == NanToNum(ClampNegatives(FillDiagonal(Symmetrize(raw))))

\* The loader of script s.
Loader(s, raw) ==
    CASE s = "global_efficiency" -> load_and_clean_matrix(raw)
      [] s = "char_path" -> load_and_clean_W(raw)
      [] s = "clustering" -> load_W_clustering(raw)
      [] s = "modularity" -> load_W_csv(raw)
      [] s = "node_strength" -> load_W_node_strength(raw)

\* A matrix of finite floats as a matrix of integers.
AsIntegers(M) ==
    [M EXCEPT !.a = [i \in 1..M.n |-> [j \in 1..M.n |-> M.a[i][j].v]]]


-----------------------------------------------------------------------------
(* The preprocessing functions of modularity.py on cleaned matrices.       *)

Nodes(M) == 1..M.n

Max2(x, y) == IF x >= y THEN x ELSE y

Min2(x, y) == IF x <= y THEN x ELSE y

\* np.zeros_like(W)
ZerosLike(M) == [M EXCEPT !.a = [i \in 1..M.n |-> [j \in 1..M.n |-> 0]]]

\* float(np.max(W))
MatMax(M) ==
    CHOOSE v \in {M.a[i][j] : i, j \in Nodes(M)} :
        \A i, j \in Nodes(M) : M.a[i][j] <= v

\* maybe_normalize(W, enable): W / m when m > 0.  np.max of an empty matrix
\* raises, which the loaders' non-empty CSV excludes.
maybe_normalize(M, enable) ==
    IF ~enable THEN M
    ELSE LET m == MatMax(M)
         IN  IF m > 0 THEN [M EXCEPT !.den = M.den * m] ELSE M

\* The cells above the diagonal: np.triu_indices(n, 1)
Triu(n) == {p \in (1..n) \X (1..n) : p[1] < p[2]}

\* The positive cells above the diagonal.
PosEdges(M) == {p \in Triu(M.n) : M.a[p[1]][p[2]] > 0}

\* Densities are pairs <<num, den>> with den > 0.
DLe(x, y) == x[1] * y[2] <= y[1] * x[2]

DLt(x, y) == x[1] * y[2] < y[1] * x[2]

DEq(x, y) == x[1] * y[2] = y[1] * x[2]

\* max in place of min.
DMax(a, b) == IF DLt(a, b) THEN b ELSE a

\* Python's min(a, b): b when b < a, else a.
DMin(a, b) == IF DLt(b, a) THEN b ELSE a

DZero == <<0, 1>>

\* density(W)
density(M) ==
    IF M.n < 2 THEN DZero
    ELSE <<2 * Cardinality(PosEdges(M)), M.n * (M.n - 1)>>

\* np.partition(pos_vals, -k)[-k]: the k-th largest of the positive values.
KthLargest(M, k) ==
    CHOOSE v \in {M.a[p[1]][p[2]] : p \in PosEdges(M)} :
        /\ Cardinality({p \in PosEdges(M) : M.a[p[1]][p[2]] > v}) < k
        /\ Cardinality({p \in PosEdges(M) : M.a[p[1]][p[2]] >= v}) >= k

\* k_edges: floor(target_used * total_possible) clamped to [1, m].
\* (Exact arithmetic; it agrees with the float64 computation for all
\* matrices of fewer than ten nodes.)
KEdges(M, target_used) ==
    LET total_possible == (M.n * (M.n - 1)) \div 2
        m == Cardinality(PosEdges(M))
        k_edges == (target_used[1] * total_possible) \div target_used[2]
    IN  Max2(1, Min2(k_edges, m))

\* The mask with "pos_vals > kth" in place of "pos_vals >= kth".
TopMaskStrict(M, k_edges) ==
    LET kth == KthLargest(M, k_edges)
        kept == {p \in PosEdges(M) : M.a[p[1]][p[2]] > kth}
    IN  kept \cup {<<p[2], p[1]>> : p \in kept}

\* The mask M after "keep top k_edges positive weights", as a set of cells.
TopMask(M, k_edges) ==
    LET kth == KthLargest(M, k_edges)
        kept == {p \in PosEdges(M) : M.a[p[1]][p[2]] >= kth}
    IN  kept \cup {<<p[2], p[1]>> : p \in kept}

\* nz = np.where(wi > 0)[0] with wi[i] = 0
Neighbours(M, i) == {j \in Nodes(M) : j # i /\ M.a[i][j] > 0}

\* The selection with argpartition(wi[nz], k)[:k]: the k weakest.
BottomKSets(M, i, k) ==
    {T \in SUBSET Neighbours(M, i) :
        /\ Cardinality(T) = k
        /\ \A t \in T : \A u \in Neighbours(M, i) \ T : M.a[i][t] <= M.a[i][u]}

\* What nz[np.argpartition(wi[nz], -k)[-k:]] may be: some k of the
\* neighbours, none weaker than a neighbour left out.  Which of several
\* equal weights it takes is up to the selection algorithm.
TopKSets(M, i, k) ==
    {T \in SUBSET Neighbours(M, i) :
        /\ Cardinality(T) = k
        /\ \A t \in T : \A u \in Neighbours(M, i) \ T : M.a[i][t] >= M.a[i][u]}

\* The choices the k-NN loop can make for nodes 1..i: for every node its
\* topk (empty where the loop does nothing).
RECURSIVE KnnChoicesUpTo(_, _, _)
KnnChoicesUpTo(M, knn_k, i) ==
    IF i = 0 THEN {<<>>}
    ELSE LET nz == Neighbours(M, i)
             tops == IF knn_k > 0 /\ nz # {}
                     THEN TopKSets(M, i, Min2(knn_k, Cardinality(nz)))
                     ELSE {{}}
         IN  {Append(c, T) : c \in KnnChoicesUpTo(M, knn_k, i - 1), T \in tops}

KnnChoices(M, knn_k) == KnnChoicesUpTo(M, knn_k, M.n)

\* M[i, topk] = True; M[topk, i] = True for every node
KnnMask(M, choice) ==
    UNION {{<<i, t>> : t \in choice[i]} \cup {<<t, i>> : t \in choice[i]} :
            i \in Nodes(M)}

\* The mask applied as np.where(M, 1.0, 0.0): a binarised matrix.
ApplyMaskBinary(M, mask) ==
    [M EXCEPT !.a = [i \in Nodes(M) |-> [j \in Nodes(M) |->
                  IF i # j /\ (<<i, j>> \in mask \/ <<j, i>> \in mask) THEN 1 ELSE 0]]]

\* U = np.where(M, W, 0.0); U = np.maximum(U, U.T); np.fill_diagonal(U, 0.0)
ApplyMask(M, mask) ==
    LET U0 == [i \in Nodes(M) |-> [j \in Nodes(M) |->
                  IF <<i, j>> \in mask THEN M.a[i][j] ELSE 0]]
    IN  [M EXCEPT !.a = [i \in Nodes(M) |-> [j \in Nodes(M) |->
                  IF i = j THEN 0 ELSE Max2(U0[i][j], U0[j][i])]]]

\* threshold_to_target_density(W, target, knn_k), for one choice of the
\* k-NN loop: (W_thr, target_used, available_density).
threshold_to_target_density(M, target, knn_k, choice) ==
    IF M.n < 2 THEN [U |-> ZerosLike(M), target_used |-> DZero, avail |-> DZero]
    ELSE
    LET m == Cardinality(PosEdges(M))
        avail_density == <<2 * m, M.n * (M.n - 1)>>
        target_used == DMin(target, avail_density)
    IN  IF m = 0
        THEN [U |-> ZerosLike(M), target_used |-> DZero, avail |-> avail_density]
        ELSE IF DLe(target_used, DZero)
        THEN [U |-> ZerosLike(M), target_used |-> target_used,
              avail |-> avail_density]
        ELSE [U |-> ApplyMask(M, TopMask(M, KEdges(M, target_used))
                                   \cup KnnMask(M, choice)),
              target_used |-> target_used, avail |-> avail_density]

\* The nodes reachable from the set S along positive entries.
RECURSIVE Reach(_, _)
Reach(M, S) ==
    LET T == S \cup {j \in Nodes(M) : \E i \in S : M.a[i][j] > 0}
    IN  IF T = S THEN S ELSE Reach(M, T)

\* nx.connected_components(G)
Components(M) == {Reach(M, {i}) : i \in Nodes(M)}

\* G.number_of_edges(): the positive cells on or above the diagonal.
NumberOfEdges(M) ==
    Cardinality({p \in (1..M.n) \X (1..M.n) : p[1] <= p[2] /\ M.a[p[1]][p[2]] > 0})

SetMin(S) == CHOOSE x \in S : \A y \in S : x <= y

\* sorted(S) for a set of integers
RECURSIVE SortedSeq(_)
SortedSeq(S) ==
    IF S = {} THEN <<>> ELSE <<SetMin(S)>> \o SortedSeq(S \ {SetMin(S)})

\* comps[0] in place of max(comps, key=len).
FirstComponent(comps) ==
    CHOOSE c \in comps : \A d \in comps : SetMin(c) <= SetMin(d)

\* max(comps, key=len): the first of the largest components, and
\* connected_components yields them in the order of their smallest node.
FirstLargest(comps) ==
    CHOOSE c \in comps :
        /\ \A d \in comps : Cardinality(d) <= Cardinality(c)
        /\ \A d \in comps : Cardinality(d) = Cardinality(c) => SetMin(c) <= SetMin(d)

\* W[np.ix_(idx, idx)]
Submatrix(M, idx) ==
    [n |-> Len(idx),
     a |-> [i \in 1..Len(idx) |-> [j \in 1..Len(idx) |-> M.a[idx[i]][idx[j]]]],
     den |-> M.den]

\* largest_component_submatrix(W): (W_gcc, idx)
largest_component_submatrix(M) ==
    IF M.n = 0 \/ NumberOfEdges(M) = 0
    THEN [W |-> M, idx |-> SortedSeq(Nodes(M))]
    ELSE IF Cardinality(Components(M)) <= 1
    THEN [W |-> M, idx |-> SortedSeq(Nodes(M))]
    ELSE LET gcc == FirstLargest(Components(M))
             idx == SortedSeq(gcc)
         IN  [W |-> Submatrix(M, idx), idx |-> idx]


-----------------------------------------------------------------------------
(* Specifications of the functions: the input is drawn in the initial      *)
(* state and one action applies the function.                              *)

batchVars == <<script, listing, files, fileNo, cur, steps, W, used, metric,
               rows, csv, csvWrites, exc, failed>>

\* The batch driver's variables while a function is examined by itself.
BatchIdle ==
    /\ script = "none"
    /\ listing = {}
    /\ files = <<>>
    /\ fileNo = 0
    /\ cur = <<>>
    /\ steps = <<>>
    /\ W = <<>>
    /\ used = <<>>
    /\ metric = None
    /\ rows = <<>>
    /\ csv = <<>>
    /\ csvWrites = 0
    /\ exc = None
    /\ failed = {}

\* The sequences over S of length at most n.
SeqsUpTo(S, n) == UNION {[1..k -> S] : k \in 0..n}

\* ---- file discovery ----

NamePrefixes ==
    {LitPrefix,
     <<"i", "n", "s", "i", "d", "e", "r", "_">>,
     <<"I", "N", "LONGS", "I", "D", "E", "R", "_">>,
     <<"I", "N", "s", "I", "D", "E", "_">>,
     <<"X", "I", "N", "s", "I", "D", "E", "R", "_">>}

NameIds == SeqsUpTo({"C", "p", "1", "_", "LF"}, MaxIdLen)

NameMethods ==
    {LitACT, <<"a", "c", "t">>, LitTREKKER,
     <<"t", "r", "e", "k", "k", "e", "r">>,
     <<"T", "R", "E", "KELVIN", "K", "E", "R">>,
     <<"A", "C">>}

NameExts ==
    {LitCsv, <<".", "C", "S", "V">>, <<".", "c", "s", "v", "LF">>,
     <<".", "c", "LONGS", "v">>, <<"x", "c", "s", "v">>,
     <<".", "c", "s", "v", "x">>}

\* The file names a directory may hold.
NamePool ==
    {p \o i \o <<"_">> \o m \o e :
        p \in NamePrefixes, i \in NameIds, m \in NameMethods, e \in NameExts}

\* The entries the directory of a batch run may hold: three connectomes
\* (one named in lower case) and another CSV.
NamePoolOfRun ==
    {LitPrefix \o <<"C", "1", "_">> \o LitACT \o LitCsv,
     LitPrefix \o <<"C", "1", "_">> \o LitTREKKER \o LitCsv,
     <<"i", "n", "s", "i", "d", "e", "r", "_", "p", "2", "_", "a", "c", "t",
       ".", "C", "S", "V">>,
     <<"x", ".", "c", "s", "v">>}

InitRe ==
    /\ pc = "call"
    /\ inp \in {[name |-> f, script |-> s] : f \in NamePool, s \in Scripts}
    /\ out = None
    /\ BatchIdle

\* One pass of a script's discovery over one directory entry.
Discover ==
    /\ pc = "call"
    /\ out' = IF Processes(inp.script, inp.name)
              THEN [processed |-> TRUE, meta |-> MetaOf(inp.script, inp.name)]
              ELSE [processed |-> FALSE, meta |-> None]
    /\ pc' = "ret"
    /\ UNCHANGED <<inp, batchVars>>

NextRe == Discover

SpecRe == InitRe /\ [][NextRe]_vars

\* ---- group inference ----

SubjectPool == SeqsUpTo({"C", "c", "P", "p", "_", "x"}, MaxSubjLen)

InitGroup ==
    /\ pc = "call"
    /\ inp \in SubjectPool
    /\ out = None
    /\ BatchIdle

\* Every copy of infer_group applied to the same subject string.
InferAll ==
    /\ pc = "call"
    /\ out' = [global_efficiency |-> infer_group_global_efficiency(inp),
               char_path |-> infer_group_char_path(inp),
               clustering |-> infer_group_clustering(inp),
               modularity |-> infer_group_modularity(inp),
               node_strength |-> infer_group_node_strength(inp),
               load_csv |-> infer_group_from_subject(inp)]
    /\ pc' = "ret"
    /\ UNCHANGED <<inp, batchVars>>

NextGroup == InferAll

SpecGroup == InitGroup /\ [][NextGroup]_vars

\* ---- loaders ----

RawVals == {Fin(v) : v \in (0 - MaxRaw)..MaxRaw} \cup {FNaN, FPosInf, FNegInf}

\* The square CSVs of n rows.
RawMatrices(n) ==
    {[n |-> n, a |-> a, den |-> 1] : a \in [1..n -> [1..n -> RawVals]]}

InitLoad ==
    /\ pc = "call"
    /\ inp \in {[script |-> s, raw |-> r] :
                  s \in Scripts, r \in UNION {RawMatrices(n) : n \in 1..MaxLoadN}}
    /\ out = None
    /\ BatchIdle

LoadCall ==
    /\ pc = "call"
    /\ out' = Loader(inp.script, inp.raw)
    /\ pc' = "ret"
    /\ UNCHANGED <<inp, batchVars>>

NextLoad == LoadCall

SpecLoad == InitLoad /\ [][NextLoad]_vars

\* ---- sparsifier ----

\* The symmetric non-negative matrices of n nodes: a weight for every pair
\* and one value on the whole diagonal.
SymMatrices(n) ==
    {[n |-> n,
      a |-> [i \in 1..n |-> [j \in 1..n |->
               IF i = j THEN d ELSE w[<<Min2(i, j), Max2(i, j)>>]]],
      den |-> 1] : w \in [Triu(n) -> 0..MaxW], d \in 0..1}

\* The matrices whose graph is a part of the ring 1 - 2 - ... - n - 1, with
\* one more weight level than SymMatrices: the smallest graphs where an edge
\* is a node's strongest and still below the density threshold.
RingPairs(n) == {<<i, i + 1>> : i \in 1..(n - 1)} \cup {<<1, n>>}

RingMatrices(n) ==
    {[n |-> n,
      a |-> [i \in 1..n |-> [j \in 1..n |->
               IF <<Min2(i, j), Max2(i, j)>> \in RingPairs(n) /\ i # j
               THEN w[<<Min2(i, j), Max2(i, j)>>] ELSE 0]],
      den |-> 1] : w \in [RingPairs(n) -> 0..(MaxW + 1)]}

TARGET_DENSITY == <<2, 25>>

\* The targets tried: none, the configured one, some between, and one above
\* any density.
TargetPool == {DZero, TARGET_DENSITY, <<1, 3>>, <<2, 3>>, <<3, 2>>}

InitThr ==
    /\ pc = "call"
    /\ inp \in {[W |-> m, target |-> t, knn_k |-> k] :
                  m \in UNION {SymMatrices(n) : n \in 0..MaxN}
                          \cup RingMatrices(RingN),
                  t \in TargetPool, k \in 0..MaxK}
    /\ out = None
    /\ BatchIdle

ThresholdCall ==
    /\ pc = "call"
    /\ \E choice \in KnnChoices(inp.W, inp.knn_k) :
          out' = threshold_to_target_density(inp.W, inp.target, inp.knn_k, choice)
    /\ pc' = "ret"
    /\ UNCHANGED <<inp, batchVars>>

NextThr == ThresholdCall

SpecThr == InitThr /\ [][NextThr]_vars

\* ---- connectivity reducer ----

InitGcc ==
    /\ pc = "call"
    /\ inp \in UNION {SymMatrices(n) : n \in 0..MaxN}
    /\ out = None
    /\ BatchIdle

GccCall ==
    /\ pc = "call"
    /\ out' = largest_component_submatrix(inp)
    /\ pc' = "ret"
    /\ UNCHANGED <<inp, batchVars>>

NextGcc == GccCall

SpecGcc == InitGcc /\ [][NextGcc]_vars


-----------------------------------------------------------------------------
(* Claims about the functions.                                             *)

\* C1 (as claimed): the matrix a loader returns is symmetric, has every
\* entry >= 0 and a zero diagonal, whatever square numeric CSV it read.
C1_LoaderCleans ==
    pc = "ret" =>
        /\ \A i, j \in 1..out.n : FEq(out.a[i][j], out.a[j][i])
        /\ \A i, j \in 1..out.n : FGe0(out.a[i][j])
        /\ \A i \in 1..out.n : FEq(out.a[i][i], Fin(0))

\* C9 (as claimed): a script processes a file name exactly when FILE_RE
\* matches it; the recorded subject is the first group unchanged and the
\* recorded method is the second group upper-cased, which is "ACT" or
\* "TREKKER".
C9_Discovery ==
    pc = "ret" =>
        /\ out.processed <=> FILE_RE_match(inp.name) # NoMatch
        /\ out.processed =>
              /\ out.meta.subject = FILE_RE_match(inp.name)[1]
              /\ out.meta.method = StrUpper(FILE_RE_match(inp.name)[2])
              /\ out.meta.method \in {LitACT, LitTREKKER}

\* The first character after the first "_" of s, or "" when there is none.
AfterFirstUnderscore(s) ==
    IF \E u \in 1..Len(s) : s[u] = "_" /\ u < Len(s)
                                /\ \A l \in 1..(u - 1) : s[l] # "_"
    THEN s[(CHOOSE u \in 1..Len(s) : s[u] = "_" /\ \A l \in 1..(u - 1) : s[l] # "_") + 1]
    ELSE ""

GroupExpected(s) ==
    IF AfterFirstUnderscore(s) \in {"C", "c"} THEN "control"
    ELSE IF AfterFirstUnderscore(s) \in {"P", "p"} THEN "patient"
    ELSE None

\* C10: every copy of infer_group returns "control" when the first
\* character after the first underscore is C or c, "patient" when it is P
\* or p, and None otherwise, so the six copies agree on every string.
C10_InferGroup ==
    pc = "ret" =>
        \A copy \in DOMAIN out : out[copy] = GroupExpected(inp)

\* C10's case: a lower-case tag after a second part that follows an
\* underscore, recognised by every copy.
C10_Witness ==
    /\ pc = "ret"
    /\ Len(inp) = 3
    /\ inp[2] = "_"
    /\ inp[3] = "p"
    /\ \A copy \in DOMAIN out : out[copy] = "patient"

\* The preconditions the sparsifier's claims share.
ThrReturned == pc = "ret"

ZeroDiagonal(M) == \A i \in Nodes(M) : M.a[i][i] = 0

\* The number of positive entries off the diagonal, each undirected edge
\* counted in both directions.
PositiveCells(M) ==
    Cardinality({p \in Nodes(M) \X Nodes(M) : p[1] # p[2] /\ M.a[p[1]][p[2]] > 0})

DistinctWeights(M) ==
    \A p, q \in PosEdges(M) : p # q => M.a[p[1]][p[2]] # M.a[q[1]][q[2]]

KeptEdgeCase ==
    /\ ThrReturned
    /\ inp.W.n >= 2
    /\ ZeroDiagonal(inp.W)
    /\ PositiveCells(inp.W) > 0
    /\ DLt(DZero, inp.target)

C5_OnlyExistingWeights ==
    ThrReturned =>
        /\ out.U.n = inp.W.n
        /\ out.U.den = inp.W.den
        /\ \A i, j \in Nodes(inp.W) : out.U.a[i][j] \in {0, inp.W.a[i][j]}

\* C5's case: one edge kept with a weight above 1, another dropped.
C5_Witness ==
    /\ ThrReturned
    /\ \E i, j \in Nodes(inp.W) : i # j /\ out.U.a[i][j] > 1
    /\ \E i, j \in Nodes(inp.W) : i # j /\ inp.W.a[i][j] > 0 /\ out.U.a[i][j] = 0

\* C6: available_density is 2m / (n(n-1)), target_used is the smaller of
\* the target and available_density, and the result is all zero with
\* target_used = 0 when n < 2 or m = 0.
C6_CappedDensity ==
    ThrReturned =>
        /\ inp.W.n >= 2 =>
              out.avail[1] * inp.W.n * (inp.W.n - 1) = out.avail[2] * PositiveCells(inp.W)
        /\ DLe(out.target_used, inp.target)
        /\ DLe(out.target_used, out.avail)
        /\ DEq(out.target_used, inp.target) \/ DEq(out.target_used, out.avail)
        /\ inp.W.n < 2 \/ PositiveCells(inp.W) = 0 =>
              /\ DEq(out.target_used, DZero)
              /\ \A i, j \in Nodes(out.U) : out.U.a[i][j] = 0

\* C6's case: a target above what exists, capped to the available density.
C6_Witness ==
    /\ ThrReturned
    /\ PositiveCells(inp.W) > 0
    /\ DLt(out.avail, inp.target)
    /\ DEq(out.target_used, out.avail)
    /\ DLt(out.avail, <<1, 1>>)

\* The neighbours of i with fewer than k neighbours of i strictly stronger.
Strongest(M, i, k) ==
    {j \in Neighbours(M, i) :
        Cardinality({u \in Neighbours(M, i) : M.a[i][u] > M.a[i][j]}) < k}

DistinctAt(M, i) ==
    \A j, u \in Neighbours(M, i) : j # u => M.a[i][j] # M.a[i][u]

\* C7: with knn_k > 0 and a non-empty kept edge set, every node with d > 0
\* positive neighbours in the input keeps at least min(knn_k, d) of them,
\* among them its min(knn_k, d) strongest when its weights are distinct.
C7_KnnBackbone ==
    ThrReturned /\ inp.knn_k > 0 /\ inp.W.n >= 2 /\ PositiveCells(inp.W) > 0
                /\ DLt(DZero, inp.target) =>
        \A i \in Nodes(inp.W) :
            LET d == Cardinality(Neighbours(inp.W, i))
            IN  d > 0 =>
                  /\ Cardinality(Neighbours(out.U, i)) >= Min2(inp.knn_k, d)
                  /\ DistinctAt(inp.W, i) =>
                        Strongest(inp.W, i, Min2(inp.knn_k, d)) \subseteq Neighbours(out.U, i)

\* C7's case: the backbone keeps an edge that the density threshold alone
\* would have dropped.
C7_Witness ==
    /\ ThrReturned
    /\ inp.knn_k > 0
    /\ inp.W.n >= 2
    /\ DLt(DZero, inp.target)
    /\ DistinctWeights(inp.W)
    /\ PositiveCells(inp.W) > 0
    /\ PositiveCells(out.U) > 2 * KEdges(inp.W, out.target_used)

\* C is closed under the positive entries of M and cannot be split in two
\* parts with no positive entry between them.
IsComponent(M, C) ==
    /\ C # {}
    /\ C \subseteq Nodes(M)
    /\ \A i \in C : \A j \in Nodes(M) : M.a[i][j] > 0 => j \in C
    /\ \A D \in SUBSET C :
          D # {} /\ D # C => \E i \in D : \E j \in C \ D : M.a[i][j] > 0

SeqRange(q) == {q[k] : k \in 1..Len(q)}

IsSorted(q) == \A k \in 1..(Len(q) - 1) : q[k] < q[k + 1]

GccReturned == pc = "ret"

ReturnsLargestComponent ==
    /\ IsComponent(inp, SeqRange(out.idx))
    /\ \A D \in SUBSET Nodes(inp) :
          IsComponent(inp, D) => Cardinality(D) <= Len(out.idx)
    /\ IsSorted(out.idx)
    /\ out.W.n = Len(out.idx)
    /\ \A i, j \in 1..Len(out.idx) : out.W.a[i][j] = inp.a[out.idx[i]][out.idx[j]]
    /\ IsComponent(out.W, Nodes(out.W))

\* C8 (as claimed): for every symmetric non-negative W the function returns
\* the nodes of a largest connected component and W restricted to them, so
\* the returned graph is connected.
C8_LargestComponent ==
    GccReturned /\ inp.n >= 1 => ReturnsLargestComponent

\* C8 (amended): that holds when W has a positive entry; a matrix with no
\* positive entry is returned whole, with every node index.
C8_LargestComponentOrWhole ==
    GccReturned =>
        IF \E i, j \in Nodes(inp) : inp.a[i][j] > 0
        THEN ReturnsLargestComponent
        ELSE out.W = inp /\ out.idx = SortedSeq(Nodes(inp))

\* C8's case: a graph of three or more nodes cut down to a component of two
\* or more.
C8_Witness ==
    /\ GccReturned
    /\ inp.n >= 3
    /\ out.W.n >= 2
    /\ out.W.n < inp.n


-----------------------------------------------------------------------------
(* The batch drivers: the module-level code of the five metric scripts.    *)

KNN_K == 3

\* Python's str comparison: by code point, a proper prefix first.
StrLess(x, y) ==
    \E k \in 1..(Min2(Len(x), Len(y)) + 1) :
        /\ \A l \in 1..(k - 1) : x[l] = y[l]
        /\ IF k > Len(x) THEN k <= Len(y)
           ELSE k <= Len(y) /\ Ord(x[k]) < Ord(y[k])

\* A sort in descending order, as sorted(..., reverse=True) would give.
RECURSIVE SortNamesDescending(_)
SortNamesDescending(S) ==
    IF S = {} THEN <<>>
    ELSE LET most == CHOOSE x \in S : \A y \in S \ {x} : StrLess(y, x)
         IN  <<most>> \o SortNamesDescending(S \ {most})

\* sorted(S) for a set of names
RECURSIVE SortNames(_)
SortNames(S) ==
    IF S = {} THEN <<>>
    ELSE LET least == CHOOSE x \in S : \A y \in S \ {x} : StrLess(x, y)
         IN  <<least>> \o SortNames(S \ {least})

\* The list a script's loop iterates over.  global_efficiency.py loops over
\* every name ending in ".csv" and skips the others inside the loop.
LoopFiles(s, names) ==
    IF s = "global_efficiency" THEN SortNames({f \in names : EndsWithCsv(f)})
    ELSE SortNames({f \in names : Processes(s, f)})

\* The CSVs a matched file may hold, as rows of integers.
ContentPool ==
    {<<<<2>>>>,
     <<<<1, 2>>, <<0, 1>>>>,
     <<<<0, 0, 0>>, <<0, 0, 0>>, <<0, 0, 0>>>>,
     <<<<0, 3, 0>>, <<1, 0, -1>>, <<0, 1, 0>>>>,
     <<<<0, 9, 8, 2, 7>>, <<9, 0, 6, 5, 1>>, <<8, 6, 0, 4, 3>>,
       <<2, 5, 4, 0, 3>>, <<7, 1, 3, 3, 0>>>>}

\* pd.read_csv(path, header=None).values
RawOf(content) ==
    [n |-> Len(content),
     a |-> [i \in 1..Len(content) |-> [j \in 1..Len(content) |-> Fin(content[i][j])]],
     den |-> 1]

\* What a script does to the file's matrix before its metric stage or, in
\* modularity.py, before sparsification: the loader, then (NORMALIZE_WEIGHTS
\* being True and PROPORTIONAL_THRESHOLD None) the normalisation of
\* clustering_coefficient.py, node_strength.py and modularity.py.
LoadStage(s, raw) ==
    LET M == AsIntegers(Loader(s, raw))
    IN  IF s \in {"clustering", "node_strength", "modularity"}
        THEN maybe_normalize(M, TRUE)
        ELSE M

\* modularity_louvain's "no edges" return: the positive cells above the
\* diagonal are the graph's edges.
LouvainHasEdges(M) == PosEdges(M) # {}

\* The scripts whose metric call sits in a try/except that logs NaN.
GuardedScripts == {"global_efficiency", "char_path", "clustering"}

\* The row a script appends for the file in hand.
RowOf(s) ==
    [subject |-> cur.subject, method |-> cur.method, group |-> cur.group,
     metric |-> metric, n_nodes |-> W.n, density |-> density(W),
     file |-> IF s = "global_efficiency" THEN <<>> ELSE cur.file,
     extra |-> IF s = "modularity"
               THEN <<"LOUVAIN", used[1], used[2]>>
               ELSE <<>>]

\* The order of the group column: "control" before "patient", and
\* sort_values places a missing group last.
GroupLess(g, h) ==
    IF g = None THEN FALSE
    ELSE IF h = None THEN TRUE
    ELSE g = "control" /\ h = "patient"

\* The order of sort_values(["method", "group", "subject"]).
RowLess(r, q) ==
    \/ StrLess(r.method, q.method)
    \/ r.method = q.method /\ GroupLess(r.group, q.group)
    \/ r.method = q.method /\ r.group = q.group /\ StrLess(r.subject, q.subject)

\* The rows sorted, equal keys in their order of arrival.
RECURSIVE SortRows(_)
SortRows(rs) ==
    IF rs = <<>> THEN <<>>
    ELSE LET k == CHOOSE i \in 1..Len(rs) :
                    /\ \A j \in 1..Len(rs) : ~RowLess(rs[j], rs[i])
                    /\ \A j \in 1..(i - 1) : RowLess(rs[i], rs[j])
         IN  <<rs[k]>> \o SortRows([j \in 1..(Len(rs) - 1) |->
                                      IF j < k THEN rs[j] ELSE rs[j + 1]])

Init ==
    /\ pc = "scan"
    /\ script \in Scripts
    /\ listing \in {S \in SUBSET NamePoolOfRun : Cardinality(S) <= MaxFiles}
    /\ files = <<>>
    /\ fileNo = 0
    /\ cur = <<>>
    /\ steps = <<>>
    /\ W = <<>>
    /\ used = <<>>
    /\ metric = None
    /\ rows = <<>>
    /\ csv = <<>>
    /\ csvWrites = 0
    /\ exc = None
    /\ failed = {}
    /\ inp = None
    /\ out = None

\* files = sorted([f for f in os.listdir(BASE) if ...])
Scan ==
    /\ pc = "scan"
    /\ files' = LoopFiles(script, listing)
    /\ pc' = "loop"
    /\ UNCHANGED <<script, listing, fileNo, cur, steps, W, used, metric, rows,
                   csv, csvWrites, exc, failed, inp, out>>

\* global_efficiency.py: "if not m: continue"
SkipFile ==
    /\ pc = "loop"
    /\ fileNo < Len(files)
    /\ script = "global_efficiency"
    /\ FILE_RE_match(files[fileNo + 1]) = NoMatch
    /\ fileNo' = fileNo + 1
    /\ UNCHANGED <<pc, script, listing, files, cur, steps, W, used, metric,
                   rows, csv, csvWrites, exc, failed, inp, out>>

\* The head of the loop body: subject, method and group of the next file.
BeginFile ==
    /\ pc = "loop"
    /\ fileNo < Len(files)
    /\ FILE_RE_match(files[fileNo + 1]) # NoMatch
    /\ fileNo' = fileNo + 1
    /\ cur' = MetaOf(script, files[fileNo + 1])
    /\ steps' = <<>>
    /\ pc' = "load"
    /\ UNCHANGED <<script, listing, files, W, used, metric, rows, csv,
                   csvWrites, exc, failed, inp, out>>

\* The loader (and normalisation) on what the file holds.
LoadFile ==
    /\ pc = "load"
    /\ \E content \in ContentPool : W' = LoadStage(script, RawOf(content))
    /\ steps' = Append(steps, "load")
    /\ pc' = IF script = "modularity" THEN "sparsify" ELSE "metric"
    /\ UNCHANGED <<script, listing, files, fileNo, cur, used, metric, rows,
                   csv, csvWrites, exc, failed, inp, out>>

\* The loader's exception caught and the file skipped, as a metric's
\* exception is.
LoadRaisesCaught ==
    /\ pc = "load"
    /\ exc' = "load"
    /\ pc' = "loop"
    /\ UNCHANGED <<script, listing, files, fileNo, cur, steps, W, used, metric,
                   rows, csv, csvWrites, failed, inp, out>>

\* The loader raises (a CSV that is not numeric or not square): no script
\* catches it.
LoadRaises ==
    /\ pc = "load"
    /\ exc' = "load"
    /\ pc' = "crashed"
    /\ UNCHANGED <<script, listing, files, fileNo, cur, steps, W, used, metric,
                   rows, csv, csvWrites, failed, inp, out>>

\* modularity.py: threshold_to_target_density(W, TARGET_DENSITY, knn_k=KNN_K)
Sparsify ==
    /\ pc = "sparsify"
    /\ \E choice \in KnnChoices(W, KNN_K) :
          LET r == threshold_to_target_density(W, TARGET_DENSITY, KNN_K, choice)
          IN  /\ W' = r.U
              /\ used' = <<r.target_used, r.avail>>
    /\ steps' = Append(steps, "sparsify")
    /\ pc' = "reduce"
    /\ UNCHANGED <<script, listing, files, fileNo, cur, metric, rows, csv,
                   csvWrites, exc, failed, inp, out>>

\* modularity.py: CONNECTIVITY_MODE is "giant"
Reduce ==
    /\ pc = "reduce"
    /\ W' = largest_component_submatrix(W).W
    /\ steps' = Append(steps, "reduce")
    /\ pc' = "metric"
    /\ UNCHANGED <<script, listing, files, fileNo, cur, used, metric, rows,
                   csv, csvWrites, exc, failed, inp, out>>

\* The metric routine returns: a number, or modularity_louvain's NaN for a
\* graph without edges.
MetricReturns ==
    /\ pc = "metric"
    /\ metric' = IF script = "modularity" /\ ~LouvainHasEdges(W)
                 THEN "NaN" ELSE "value"
    /\ steps' = Append(steps, "metric")
    /\ pc' = "append"
    /\ UNCHANGED <<script, listing, files, fileNo, cur, W, used, rows, csv,
                   csvWrites, exc, failed, inp, out>>

\* The metric routine raises inside try/except: NaN is logged.
MetricCaught ==
    /\ pc = "metric"
    /\ script \in GuardedScripts
    /\ metric' = "NaN"
    /\ exc' = "metric"
    /\ failed' = failed \cup {Len(rows) + 1}
    /\ steps' = Append(steps, "metric")
    /\ pc' = "append"
    /\ UNCHANGED <<script, listing, files, fileNo, cur, W, used, rows, csv,
                   csvWrites, inp, out>>

\* The metric routine raises where nothing catches it: modularity_louvain
\* (FORCE_LOUVAIN_ONLY is True), and the strength computation and per-node
\* file of node_strength.py.
MetricUncaught ==
    /\ pc = "metric"
    /\ script \notin GuardedScripts
    /\ exc' = "metric"
    /\ failed' = failed \cup {Len(rows) + 1}
    /\ pc' = "crashed"
    /\ UNCHANGED <<script, listing, files, fileNo, cur, steps, W, used, metric,
                   rows, csv, csvWrites, inp, out>>

\* rows.append({...})
AppendRow ==
    /\ pc = "append"
    /\ rows' = Append(rows, RowOf(script))
    /\ steps' = Append(steps, "append")
    /\ pc' = "loop"
    /\ UNCHANGED <<script, listing, files, fileNo, cur, W, used, metric, csv,
                   csvWrites, exc, failed, inp, out>>

\* After the loop: pd.DataFrame(rows).sort_values([...]).to_csv(out_path)
WriteCsv ==
    /\ pc = "loop"
    /\ fileNo = Len(files)
    /\ rows # <<>>
    /\ csv' = SortRows(rows)
    /\ csvWrites' = csvWrites + 1
    /\ pc' = "done"
    /\ UNCHANGED <<script, listing, files, fileNo, cur, steps, W, used, metric,
                   rows, exc, failed, inp, out>>

\* After the loop with no rows: the empty DataFrame has no column to sort
\* by and sort_values raises KeyError.
WriteRaises ==
    /\ pc = "loop"
    /\ fileNo = Len(files)
    /\ rows = <<>>
    /\ exc' = "write"
    /\ pc' = "crashed"
    /\ UNCHANGED <<script, listing, files, fileNo, cur, steps, W, used, metric,
                   rows, csv, csvWrites, failed, inp, out>>

Next ==
    \/ Scan
    \/ SkipFile
    \/ BeginFile
    \/ LoadFile
    \/ LoadRaises
    \/ Sparsify
    \/ Reduce
    \/ MetricReturns
    \/ MetricCaught
    \/ MetricUncaught
    \/ AppendRow
    \/ WriteCsv
    \/ WriteRaises

Spec == Init /\ [][Next]_vars


-----------------------------------------------------------------------------
(* Claims about the batch drivers.                                         *)

\* The files the script's loop body runs for.
Discovered == {f \in listing : Processes(script, f)}

\* C2 (as claimed): in every metric script an exception of the metric
\* computation records NaN for that file, the file's row is still appended,
\* the remaining files are processed, and after the loop there is one row
\* per discovered file.  (Stated for the four scripts whose metric is a
\* call into a graph library.)
C2_FailureIsolated ==
    pc # "scan" /\ script # "node_strength" =>
        /\ ~(pc = "crashed" /\ exc = "metric")
        /\ \A k \in failed : k <= Len(rows) => rows[k].metric = "NaN"
        /\ pc \in {"loop", "done"} => \A k \in failed : k <= Len(rows)
        /\ pc = "done" => Len(rows) = Cardinality(Discovered)

StageOrder == <<"load", "sparsify", "reduce", "metric", "append">>

IsPrefix(p, q) == Len(p) <= Len(q) /\ \A k \in 1..Len(p) : p[k] = q[k]

\* C3: modularity.py takes the discovered files in sorted order, does for
\* each the stages load, sparsify, reduce, metric, append in that order,
\* and writes the CSV once, after the last file's row was appended.
C3_FixedOrder ==
    script = "modularity" /\ pc # "scan" =>
        /\ SeqRange(files) = Discovered
        /\ \A k \in 1..(Len(files) - 1) : StrLess(files[k], files[k + 1])
        /\ \A k \in 1..Len(rows) : rows[k].file = files[k]
        /\ fileNo > 0 => cur.file = files[fileNo]
        /\ Len(rows) \in {fileNo - 1, fileNo}
        /\ IsPrefix(steps, StageOrder)
        /\ fileNo > 0 => (Len(rows) = fileNo <=> steps = StageOrder)
        /\ csvWrites <= 1
        /\ csvWrites = 1 <=> pc = "done"
        /\ csvWrites = 1 =>
              /\ fileNo = Len(files)
              /\ Len(rows) = Len(files)
              /\ rows[Len(rows)].file = files[Len(files)]

\* C3's case: a run of modularity.py over three connectomes, one of them the
\* five-node matrix that sparsification thins, ended with the CSV written.
C3_Witness ==
    /\ script = "modularity"
    /\ pc = "done"
    /\ csvWrites = 1
    /\ Len(rows) = 3
    /\ \E k \in 1..3 : rows[k].n_nodes = 5 /\ DLt(rows[k].density, <<1, 1>>)
    /\ \E k \in 1..3 : rows[k].n_nodes = 2

-----------------------------------------------------------------------------
(* analyze_metrics.py: the master table.                                   *)
(* A table read from a per-metric CSV is a sequence of rows                *)
(* [key, vals]: key is [subject, method, group] and vals maps the other    *)
(* columns to floats.  Subjects are written without their "INsIDER_"       *)
(* prefix.  A group the script could not infer was written as an empty     *)
(* field and is read back as NaN.  Of the columns of the modularity table, *)
(* modularity_Q and n_nodes are kept; density, used_density and            *)
(* available_density travel through the merge as modularity_Q does.        *)

\* The rows a per-metric table may have.
MaxTableRows == 2

\* A missing group as pd.read_csv returns it.
NA == "nan"

\* The dtype pd.read_csv gives the group column: float64 when every field
\* is empty, object when some row holds a string.
GroupDtype(T) ==
    IF \A i \in 1..Len(T) : T[i].key.group = NA THEN "float64" ELSE "object"

\* pandas' check of the merge keys: an object column of strings is not
\* merged with a float64 column ("You are trying to merge on object and
\* float64 columns"), unless one of the two tables has no row.
MergeRaises(L, R) ==
    /\ Len(L) > 0
    /\ Len(R) > 0
    /\ GroupDtype(L) # GroupDtype(R)

\* The lexicographic order of the key columns; NaN after every string.
KeyLess(k, q) ==
    \/ StrLess(k.subject, q.subject)
    \/ k.subject = q.subject /\ StrLess(k.method, q.method)
    \/ /\ k.subject = q.subject
       /\ k.method = q.method
       /\ k.group # q.group
       /\ (q.group = NA \/ (k.group # NA /\ k.group = "control"))

\* The pairs (row of L, row of R) of an outer join, 0 for "no row": rows
\* with equal keys are paired (NaN keys are equal to each other), and a row
\* without a partner appears once.
OuterPairs(L, R) ==
    {p \in (0..Len(L)) \X (0..Len(R)) :
        \/ p[1] > 0 /\ p[2] > 0 /\ L[p[1]].key = R[p[2]].key
        \/ p[1] > 0 /\ p[2] = 0 /\ \A j \in 1..Len(R) : R[j].key # L[p[1]].key
        \/ p[1] = 0 /\ p[2] > 0 /\ \A i \in 1..Len(L) : L[i].key # R[p[2]].key}

PairKey(L, R, p) == IF p[1] > 0 THEN L[p[1]].key ELSE R[p[2]].key

\* The pairs in the order of the result: by key, rows of one key in the
\* order of the left and then of the right table.
RECURSIVE OrderPairs(_, _, _)
OrderPairs(L, R, P) ==
    IF P = {} THEN <<>>
    ELSE LET first == CHOOSE p \in P : \A q \in P \ {p} :
                         \/ KeyLess(PairKey(L, R, p), PairKey(L, R, q))
                         \/ /\ PairKey(L, R, p) = PairKey(L, R, q)
                            /\ (p[1] < q[1] \/ (p[1] = q[1] /\ p[2] < q[2]))
         IN  <<first>> \o OrderPairs(L, R, P \ {first})

\* L.merge(R, on=["subject", "method", "group"], how="outer") where L has
\* the value columns lcols and R the value columns rcols.
OuterMerge(L, R, lcols, rcols) ==
    LET ps == OrderPairs(L, R, OuterPairs(L, R))
    IN  [k \in 1..Len(ps) |->
            [key  |-> PairKey(L, R, ps[k]),
             vals |-> (IF ps[k][1] > 0 THEN L[ps[k][1]].vals
                       ELSE [c \in lcols |-> FNaN])
                      @@ (IF ps[k][2] > 0 THEN R[ps[k][2]].vals
                          ELSE [c \in rcols |-> FNaN])]]

\* df.replace([np.inf, -np.inf], np.nan)
ReplaceInf(T) ==
    [k \in 1..Len(T) |->
        [T[k] EXCEPT !.vals = [c \in DOMAIN T[k].vals |->
            IF T[k].vals[c].k \in {"pinf", "ninf"} THEN FNaN ELSE T[k].vals[c]]]]

\* A sequence of integers in ascending order.
RECURSIVE SortInts(_)
SortInts(q) ==
    IF q = <<>> THEN <<>>
    ELSE LET k == CHOOSE i \in 1..Len(q) : \A j \in 1..Len(q) : q[i] <= q[j]
         IN  <<q[k]>> \o SortInts([j \in 1..(Len(q) - 1) |->
                                     IF j < k THEN q[j] ELSE q[j + 1]])

\* Twice df["n_nodes"].dropna().median(); 0 - 1 for the NaN of an empty
\* series.
Median2(T) ==
    LET present == SelectSeq(T, LAMBDA r : r.vals.n_nodes.k = "fin")
        sorted == SortInts([k \in 1..Len(present) |-> present[k].vals.n_nodes.v])
        n == Len(sorted)
    IN  IF n = 0 THEN 0 - 1
        ELSE IF n % 2 = 1 THEN 2 * sorted[(n + 1) \div 2]
        ELSE sorted[n \div 2] + sorted[n \div 2 + 1]

\* df["qc_gcc_ok"] = df["n_nodes"] >= 0.90 * med_n; a comparison with NaN
\* on either side is False.
WithQcFlag(T) ==
    LET med2 == Median2(T)
    IN  [k \in 1..Len(T) |->
            [key |-> T[k].key, vals |-> T[k].vals,
             qc_gcc_ok |-> /\ med2 >= 0
                           /\ T[k].vals.n_nodes.k = "fin"
                           /\ 20 * T[k].vals.n_nodes.v >= 9 * med2]]

GeCols == {"global_efficiency"}
CplCols == {"char_path_length"}
ModCols == {"modularity_Q", "n_nodes"}

\* Sections 1 and 2 of analyze_metrics.py: the three tables merged, inf
\* replaced, the QC flag added and the master table written; or the
\* ValueError of the merge that ends the script.
MasterTable(ge, cpl, mod) ==
    IF MergeRaises(ge, cpl) THEN [exc |-> "ValueError", df |-> <<>>]
    ELSE LET df1 == OuterMerge(ge, cpl, GeCols, CplCols)
         IN  IF MergeRaises(df1, mod) THEN [exc |-> "ValueError", df |-> <<>>]
             ELSE [exc |-> None,
                   df  |-> WithQcFlag(ReplaceInf(
                              OuterMerge(df1, mod, GeCols \cup CplCols, ModCols)))]

\* The keys of the tables tried: one subject under both methods, and a
\* subject whose group is not recognised.
KeyPool ==
    {[subject |-> <<"C", "1">>, method |-> LitACT, group |-> "control"],
     [subject |-> <<"C", "1">>, method |-> LitTREKKER, group |-> "control"],
     [subject |-> <<"X", "1">>, method |-> LitACT, group |-> NA]}

\* The non-empty key columns a per-metric CSV can have (a metric script
\* that appended no row writes no CSV).
KeyColumns == UNION {[1..k -> KeyPool] : k \in 1..MaxTableRows}

\* The tables with these keys.  The i-th row holds the value i, but the
\* first path length is inf (a disconnected graph) and the first modularity
\* is NaN (a graph without edges).
GeTable(ks) ==
    [i \in 1..Len(ks) |-> [key |-> ks[i], vals |-> [c \in GeCols |-> Fin(i)]]]

CplTable(ks) ==
    [i \in 1..Len(ks) |->
        [key |-> ks[i],
         vals |-> [c \in CplCols |-> IF i = 1 THEN FPosInf ELSE Fin(i)]]]

ModTable(ks) ==
    [i \in 1..Len(ks) |->
        [key |-> ks[i],
         vals |-> [c \in ModCols |->
                      IF c = "modularity_Q" /\ i = 1 THEN FNaN ELSE Fin(i)]]]

InitMerge ==
    /\ pc = "call"
    /\ inp \in {[ge |-> GeTable(a), cpl |-> CplTable(b), mod |-> ModTable(c)] :
                  a \in KeyColumns, b \in KeyColumns, c \in KeyColumns}
    /\ out = None
    /\ BatchIdle

MergeCall ==
    /\ pc = "call"
    /\ out' = MasterTable(inp.ge, inp.cpl, inp.mod)
    /\ pc' = "ret"
    /\ UNCHANGED <<inp, batchVars>>

NextMerge == MergeCall

SpecMerge == InitMerge /\ [][NextMerge]_vars

KeysOf(T) == {T[i].key : i \in 1..Len(T)}

UniqueKeys(T) == \A i, j \in 1..Len(T) : T[i].key = T[j].key => i = j

\* The value a table holds for a key in a column, NaN when it lacks the key.
ValueAt(T, key, c) ==
    IF key \in KeysOf(T)
    THEN (CHOOSE r \in {T[i] : i \in 1..Len(T)} : r.key = key).vals[c]
    ELSE FNaN

\* C11 (as claimed): analyze_metrics.py builds the master table, whose keys
\* are exactly the keys of the three per-metric tables; with unique keys in
\* each table it has one row per key, holding each table's value for the
\* key (inf read as NaN) and NaN where the table lacks the key.
C11_MasterTable ==
    pc = "ret" =>
        /\ out.exc = None
        /\ KeysOf(out.df) = KeysOf(inp.ge) \cup KeysOf(inp.cpl) \cup KeysOf(inp.mod)
        /\ UniqueKeys(inp.ge) /\ UniqueKeys(inp.cpl) /\ UniqueKeys(inp.mod) =>
              /\ UniqueKeys(out.df)
              /\ \A i \in 1..Len(out.df) :
                    /\ \A c \in GeCols : out.df[i].vals[c]
                          = ValueAt(ReplaceInf(inp.ge), out.df[i].key, c)
                    /\ \A c \in CplCols : out.df[i].vals[c]
                          = ValueAt(ReplaceInf(inp.cpl), out.df[i].key, c)
                    /\ \A c \in ModCols : out.df[i].vals[c]
                          = ValueAt(ReplaceInf(inp.mod), out.df[i].key, c)

-----------------------------------------------------------------------------
(* modularity.py: the choice of the modularity routine, for either         *)
(* setting of FORCE_LOUVAIN_ONLY.  inp is the setting and the matrix at    *)
(* the metric stage; out holds the routines invoked so far, the result in  *)
(* hand and the rows appended.  A Q is tagged with the routine that        *)
(* computed it; n_comms travels with Q.                                    *)

\* modularity_bct(W, GAMMA) when bct.modularity_und returns
modularity_bct(M) ==
    [Q |-> [by |-> "BCT", v |-> "value"], which |-> "BCT"]

\* modularity_louvain(W, GAMMA) when it returns: NaN for a graph without
\* edges, else the Q of the partition found.
modularity_louvain(M) ==
    [Q |-> [by |-> "LOUVAIN", v |-> IF LouvainHasEdges(M) THEN "value" ELSE "NaN"],
     which |-> "LOUVAIN"]

\* The cleaned matrices a file may reach the metric stage with.
CleanMatrices ==
    {m \in UNION {SymMatrices(n) : n \in 0..MaxN} :
        \A i \in 1..m.n : m.a[i][i] = 0}

InitAlgo ==
    /\ pc = "metric"
    /\ inp \in [force : BOOLEAN, W : CleanMatrices]
    /\ out = [calls |-> <<>>, bct_raised |-> FALSE, res |-> None, rows |-> <<>>]
    /\ BatchIdle

\* else-branch, try: modularity_bct returns
BctReturns ==
    /\ pc = "metric"
    /\ ~inp.force
    /\ out' = [out EXCEPT !.calls = Append(@, "BCT"), !.res = modularity_bct(inp.W)]
    /\ pc' = "record"
    /\ UNCHANGED <<inp, batchVars>>

\* else-branch, try: modularity_bct raises and the except clause takes over
BctRaises ==
    /\ pc = "metric"
    /\ ~inp.force
    /\ out' = [out EXCEPT !.calls = Append(@, "BCT"), !.bct_raised = TRUE]
    /\ pc' = "fallback"
    /\ UNCHANGED <<inp, batchVars>>

\* modularity_louvain returns, called under FORCE_LOUVAIN_ONLY or from the
\* except clause
LouvainReturns ==
    /\ (pc = "metric" /\ inp.force) \/ pc = "fallback"
    /\ out' = [out EXCEPT !.calls = Append(@, "LOUVAIN"),
                          !.res = modularity_louvain(inp.W)]
    /\ pc' = "record"
    /\ UNCHANGED <<inp, batchVars>>

\* community_louvain raises: neither call of modularity_louvain is inside a
\* try, so the script ends.
LouvainRaises ==
    /\ (pc = "metric" /\ inp.force) \/ pc = "fallback"
    /\ LouvainHasEdges(inp.W)
    /\ out' = [out EXCEPT !.calls = Append(@, "LOUVAIN")]
    /\ pc' = "crashed"
    /\ UNCHANGED <<inp, batchVars>>

\* rows.append({..., "modularity_Q": Q, ..., "algorithm": which, ...})
RecordRow ==
    /\ pc = "record"
    /\ out' = [out EXCEPT !.rows = Append(@, [modularity_Q |-> out.res.Q,
                                              algorithm |-> out.res.which])]
    /\ pc' = "done"
    /\ UNCHANGED <<inp, batchVars>>

NextAlgo ==
    \/ BctReturns
    \/ BctRaises
    \/ LouvainReturns
    \/ LouvainRaises
    \/ RecordRow

SpecAlgo == InitAlgo /\ [][NextAlgo]_vars

Invoked(r) == \E k \in 1..Len(out.calls) : out.calls[k] = r

\* The choice of the routine: BCT never under FORCE_LOUVAIN_ONLY, else BCT
\* first and Louvain exactly when BCT raised; never more than one row, whose
\* algorithm field names the routine that computed its Q.
AlgorithmChoice ==
    /\ inp.force => ~Invoked("BCT")
    /\ ~inp.force /\ pc # "metric" => out.calls[1] = "BCT"
    /\ ~inp.force /\ pc \notin {"metric", "fallback"} =>
          (Invoked("LOUVAIN") <=> out.bct_raised)
    /\ Len(out.calls) <= 2
    /\ Len(out.rows) <= 1
    /\ \A k \in 1..Len(out.rows) : out.rows[k].algorithm = out.rows[k].modularity_Q.by

\* C12 (as claimed): the routine is chosen as above and in all cases the
\* file gets its one result: the metric stage never ends without a row.
C12_AlgorithmSelection ==
    /\ AlgorithmChoice
    /\ pc # "crashed"
    /\ pc = "done" <=> Len(out.rows) = 1

-----------------------------------------------------------------------------
(* The copies of the density computation.                                  *)

\* The largest matrix a density is computed of.
MaxDensN == 3

\* density with np.triu(W, 0): the diagonal counted too.
density_with_diagonal(M) ==
    IF M.n < 2 THEN DZero
    ELSE LET e == Cardinality({p \in (1..M.n) \X (1..M.n) :
                                  p[1] <= p[2] /\ M.a[p[1]][p[2]] > 0})
         IN  <<2 * e, M.n * (M.n - 1)>>

\* characteristic_path_lengh.py: matrix_density(W)
matrix_density(M) ==
    LET n == M.n
    IN  IF n < 2 THEN DZero
        ELSE LET e == Cardinality({p \in Triu(n) : M.a[p[1]][p[2]] > 0})
             IN  <<2 * e, n * (n - 1)>>

\* global_efficiency.py: the expression after the metric
\* (np.count_nonzero(np.triu(W, 1) > 0) * 2) / (n * (n - 1)) if n > 1 else 0.0
density_global_efficiency(M) ==
    LET n == M.n
    IN  IF n > 1
        THEN <<Cardinality({p \in Triu(n) : M.a[p[1]][p[2]] > 0}) * 2, n * (n - 1)>>
        ELSE DZero

\* node_strength.py: density(W)
density_node_strength(M) ==
    LET n == M.n
    IN  IF n < 2 THEN DZero
        ELSE LET e == Cardinality({p \in Triu(n) : M.a[p[1]][p[2]] > 0})
             IN  <<2 * e, n * (n - 1)>>

\* clustering_coefficient.py: density(W)
density_clustering(M) ==
    LET n == M.n
    IN  IF n < 2 THEN DZero
        ELSE LET e == Cardinality({p \in Triu(n) : M.a[p[1]][p[2]] > 0})
             IN  <<2 * e, n * (n - 1)>>

\* Square matrices that need not be clean: any of -1, 0, 1 above the
\* diagonal, and one of them in every cell on and below it.
AnyMatrices(n) ==
    {[n |-> n,
      a |-> [i \in 1..n |-> [j \in 1..n |->
               IF i < j THEN w[<<i, j>>] ELSE f]],
      den |-> 1] : w \in [Triu(n) -> {0 - 1, 0, 1}], f \in {0 - 1, 0, 1}}

InitDens ==
    /\ pc = "call"
    /\ inp \in UNION {AnyMatrices(n) : n \in 0..MaxDensN}
    /\ out = None
    /\ BatchIdle

DensityCall ==
    /\ pc = "call"
    /\ out' = [modularity |-> density(inp),
               char_path |-> matrix_density(inp),
               global_efficiency |-> density_global_efficiency(inp),
               node_strength |-> density_node_strength(inp),
               clustering |-> density_clustering(inp)]
    /\ pc' = "ret"
    /\ UNCHANGED <<inp, batchVars>>

NextDens == DensityCall

SpecDens == InitDens /\ [][NextDens]_vars

\* The cells above the diagonal, row by row, and those with a positive entry.
UpperCells(M) == UNION {{<<i, j>> : j \in (i + 1)..M.n} : i \in 1..M.n}

PositiveAbove(M) == {c \in UpperCells(M) : ~(M.a[c[1]][c[2]] <= 0)}

\* C13: every copy of the density returns 0 for n < 2 and otherwise
\* 2e / (n(n-1)) with e the number of positive entries above the diagonal;
\* the value lies in [0, 1] and is 1 exactly when every entry above the
\* diagonal is positive; the copies return the same value.
C13_DensityBounds ==
    pc = "ret" =>
        /\ \A c \in DOMAIN out : out[c] = out.modularity
        /\ inp.n < 2 => out.modularity = DZero
        /\ inp.n >= 2 =>
              /\ out.modularity[2] = inp.n * (inp.n - 1)
              /\ out.modularity[1] = 2 * Cardinality(PositiveAbove(inp))
        /\ DLe(DZero, out.modularity)
        /\ DLe(out.modularity, <<1, 1>>)
        /\ inp.n >= 2 =>
              (DEq(out.modularity, <<1, 1>>) <=> PositiveAbove(inp) = UpperCells(inp))

\* C13's case: a matrix with positive entries on and below the diagonal and
\* a density strictly between 0 and 1.
C13_Witness ==
    /\ pc = "ret"
    /\ inp.n >= 3
    /\ inp.a[1][1] > 0
    /\ inp.a[2][1] > 0
    /\ DLt(DZero, out.modularity)
    /\ DLt(out.modularity, <<1, 1>>)
    /\ \E c \in UpperCells(inp) : inp.a[c[1]][c[2]] < 0

-----------------------------------------------------------------------------
(* node_strength.py: threshold_proportional; and the preprocessing stages  *)
(* applied one after another.  A proportion p is a pair <<num, den>> like  *)
(* a density, and PNone stands for p = None.                               *)

PNone == <<>>

\* int(np.floor(p * vals.size))
PropK(M, p) == (p[1] * Cardinality(Triu(M.n))) \div p[2]

\* np.partition(vals, -k)[-k]: the k-th largest of the entries above the
\* diagonal, zeros included.
KthLargestAbove(M, k) ==
    CHOOSE v \in {M.a[c[1]][c[2]] : c \in Triu(M.n)} :
        /\ Cardinality({c \in Triu(M.n) : M.a[c[1]][c[2]] > v}) < k
        /\ Cardinality({c \in Triu(M.n) : M.a[c[1]][c[2]] >= v}) >= k

\* The thresholding with the mask taken above the diagonal only and the
\* result not mirrored.
threshold_proportional_upper(M, p) ==
    IF p = PNone THEN M
    ELSE LET k == PropK(M, p)
         IN  IF k <= 0 THEN ZerosLike(M)
             ELSE LET thr == KthLargestAbove(M, k)
                  IN  [M EXCEPT !.a = [i \in Nodes(M) |-> [j \in Nodes(M) |->
                         IF i < j /\ M.a[i][j] >= thr THEN M.a[i][j] ELSE 0]]]

\* The thresholding with "U > thr" in place of "U >= thr".
threshold_proportional_strict(M, p) ==
    IF p = PNone THEN M
    ELSE LET k == PropK(M, p)
         IN  IF k <= 0 THEN ZerosLike(M)
             ELSE LET thr == KthLargestAbove(M, k)
                      U == [i \in Nodes(M) |-> [j \in Nodes(M) |->
                               IF M.a[i][j] > thr THEN M.a[i][j] ELSE 0]]
                  IN  [M EXCEPT !.a = [i \in Nodes(M) |-> [j \in Nodes(M) |->
                         IF i = j THEN 0 ELSE Max2(U[i][j], U[j][i])]]]

\* threshold_proportional(W, p), for k <= vals.size
threshold_proportional(M, p) ==
    IF p = PNone THEN M
    ELSE LET k == PropK(M, p)
         IN  IF k <= 0 THEN ZerosLike(M)
             ELSE LET thr == KthLargestAbove(M, k)
                      U == [i \in Nodes(M) |-> [j \in Nodes(M) |->
                               IF M.a[i][j] >= thr THEN M.a[i][j] ELSE 0]]
                  IN  [M EXCEPT !.a = [i \in Nodes(M) |-> [j \in Nodes(M) |->
                         IF i = j THEN 0 ELSE Max2(U[i][j], U[j][i])]]]

\* The proportions tried: None, nothing, a third, a half, two thirds, all.
PPool == {PNone, <<0, 1>>, <<1, 3>>, <<1, 2>>, <<2, 3>>, <<1, 1>>}

\* The targets tried by the stages: those of TargetPool and a negative one.
StageTargets == TargetPool \cup {<<0 - 2, 25>>}

\* The four stages, each applied at most once to the matrix in hand, in
\* any order and with any setting.
InitStages ==
    /\ pc = "stages"
    /\ inp \in {m \in CleanMatrices : m.n >= 1}
    /\ out = [W |-> inp, done |-> {}]
    /\ BatchIdle

StageNormalize ==
    /\ pc = "stages"
    /\ "maybe_normalize" \notin out.done
    /\ \E enable \in BOOLEAN :
          out' = [W |-> maybe_normalize(out.W, enable),
                  done |-> out.done \cup {"maybe_normalize"}]
    /\ UNCHANGED <<pc, inp, batchVars>>

StageTargetDensity ==
    /\ pc = "stages"
    /\ "threshold_to_target_density" \notin out.done
    /\ \E target \in StageTargets, knn_k \in 0..MaxK :
          \E choice \in KnnChoices(out.W, knn_k) :
              out' = [W |-> threshold_to_target_density(out.W, target, knn_k, choice).U,
                      done |-> out.done \cup {"threshold_to_target_density"}]
    /\ UNCHANGED <<pc, inp, batchVars>>

StageGiant ==
    /\ pc = "stages"
    /\ "largest_component_submatrix" \notin out.done
    /\ out' = [W |-> largest_component_submatrix(out.W).W,
               done |-> out.done \cup {"largest_component_submatrix"}]
    /\ UNCHANGED <<pc, inp, batchVars>>

StageProportional ==
    /\ pc = "stages"
    /\ "threshold_proportional" \notin out.done
    /\ \E p \in PPool :
          out' = [W |-> threshold_proportional(out.W, p),
                  done |-> out.done \cup {"threshold_proportional"}]
    /\ UNCHANGED <<pc, inp, batchVars>>

NextStages ==
    \/ StageNormalize
    \/ StageTargetDensity
    \/ StageGiant
    \/ StageProportional

SpecStages == InitStages /\ [][NextStages]_vars

\* Square, symmetric, non-negative, zero on the diagonal.
Cleaned(M) ==
    /\ M.n \in Nat
    /\ M.den > 0
    /\ DOMAIN M.a = 1..M.n
    /\ \A i \in 1..M.n : DOMAIN M.a[i] = 1..M.n
    /\ \A i, j \in 1..M.n : M.a[i][j] = M.a[j][i] /\ M.a[i][j] >= 0
    /\ \A i \in 1..M.n : M.a[i][i] = 0

\* C14: after any of maybe_normalize, threshold_to_target_density,
\* largest_component_submatrix and threshold_proportional, applied with any
\* setting to a cleaned matrix, and after any sequence of them, the matrix
\* is again square, symmetric, non-negative and zero on the diagonal.
C14_StagesPreserveClean ==
    pc = "stages" => Cleaned(out.W)

\* C14's case: all four stages were applied and left a smaller matrix that
\* still has edges, with rescaled weights.
C14_Witness ==
    /\ pc = "stages"
    /\ Cardinality(out.done) = 4
    /\ out.W.n >= 2
    /\ out.W.n < inp.n
    /\ out.W.den > 1
    /\ PosEdges(out.W) # {}
    /\ Cardinality(PosEdges(out.W)) < Cardinality(PosEdges(inp))

-----------------------------------------------------------------------------
(* threshold_proportional by itself.                                       *)

InitProp ==
    /\ pc = "call"
    /\ inp \in [W : CleanMatrices, p : PPool]
    /\ out = None
    /\ BatchIdle

ProportionalCall ==
    /\ pc = "call"
    /\ out' = threshold_proportional(inp.W, inp.p)
    /\ pc' = "ret"
    /\ UNCHANGED <<inp, batchVars>>

NextProp == ProportionalCall

SpecProp == InitProp /\ [][NextProp]_vars

\* p is a proportion and k = floor(p * E) is positive.
PropThresholds == pc = "ret" /\ inp.p # PNone /\ PropK(inp.W, inp.p) > 0

\* What p is None and k <= 0 give.
PropTrivialCases ==
    /\ pc = "ret" /\ inp.p = PNone => out = inp.W
    /\ pc = "ret" /\ inp.p # PNone /\ PropK(inp.W, inp.p) <= 0 => out = ZerosLike(inp.W)

\* C15 (as claimed): W for p None, zeros for k <= 0, and otherwise at most
\* k edges, the k strongest of W.
C15_AtMostKEdges ==
    /\ PropTrivialCases
    /\ PropThresholds =>
          /\ Cardinality(PosEdges(out)) <= PropK(inp.W, inp.p)
          /\ \A c \in PosEdges(out) : out.a[c[1]][c[2]] = inp.W.a[c[1]][c[2]]
          /\ \A c \in PosEdges(out) : \A d \in PosEdges(inp.W) \ PosEdges(out) :
                inp.W.a[c[1]][c[2]] > inp.W.a[d[1]][d[2]]

\* C15 (amended): W for p None, zeros for k <= 0, and otherwise the edges
\* of W at least as heavy as its k-th heaviest: each kept with its weight
\* and heavier than every edge dropped, at least min(k, m) of the m edges
\* of W, and exactly that many when the positive weights of W are distinct.
C15_KeepsStrongest ==
    /\ PropTrivialCases
    /\ PropThresholds =>
          LET k == PropK(inp.W, inp.p)
              m == Cardinality(PosEdges(inp.W))
          IN  /\ out.n = inp.W.n /\ out.den = inp.W.den
              /\ \A i, j \in Nodes(out) : out.a[i][j] \in {0, inp.W.a[i][j]}
              /\ \A c \in PosEdges(out) : \A d \in PosEdges(inp.W) \ PosEdges(out) :
                    inp.W.a[c[1]][c[2]] > inp.W.a[d[1]][d[2]]
              /\ Cardinality(PosEdges(out)) >= Min2(k, m)
              /\ DistinctWeights(inp.W) => Cardinality(PosEdges(out)) = Min2(k, m)

\* C15's case: a threshold that keeps some edges of W and drops others.
C15_Witness ==
    /\ PropThresholds
    /\ inp.W.n = 3
    /\ DistinctWeights(inp.W)
    /\ PosEdges(out) # {}
    /\ Cardinality(PosEdges(out)) = PropK(inp.W, inp.p)
    /\ Cardinality(PosEdges(out)) < Cardinality(PosEdges(inp.W))

-----------------------------------------------------------------------------
(* analyze_metrics.py: the tests of section 5, for one metric.  The table  *)
(* df is a set of rows [subject, method, group, v]: v is the metric's      *)
(* value, NaN when missing.  A statistic is "value" or "NaN".  lib records *)
(* what each scipy call did: "raise", or the statistic it returned, which  *)
(* may itself be NaN.                                                      *)

\* The subjects of a table.
MaxSubjects == 4

StatMethods == {"ACT", "TREKKER"}

\* Subjects 1, 2, 3, ... are a patient, a control, a patient, a control,
\* one of unrecognised group, and so on.
GroupOfSubject(i) ==
    <<"patient", "control", "patient", "control", NA>>[((i - 1) % 5) + 1]

\* The tables: each subject has, per method, no row, a row with a value or
\* a row with a missing value.
StatTables ==
    {{[subject |-> c[1], method |-> c[2], group |-> GroupOfSubject(c[1]),
       v |-> IF cells[c] = "value" THEN Fin(c[1]) ELSE FNaN]
         : c \in {d \in (1..MaxSubjects) \X StatMethods : cells[d] # "absent"}}
       : cells \in [(1..MaxSubjects) \X StatMethods -> {"absent", "value", "missing"}]}

\* df_in[(df_in["method"] == method) & (df_in["group"] == grp)][metric].dropna()
GroupValues(df, method, grp) ==
    {r \in df : r.method = method /\ r.group = grp /\ r.v.k # "nan"}

\* The condition with "> 0" in place of "> 1".
TestsRunFromOne(has_scipy, a, b) ==
    has_scipy /\ Cardinality(a) > 0 /\ Cardinality(b) > 0

\* _HAS_SCIPY and len(a) > 1 and len(b) > 1
TestsRun(has_scipy, a, b) ==
    has_scipy /\ Cardinality(a) > 1 /\ Cardinality(b) > 1

\* res = {"metric": metric, "method": method, "n_patient": len(a), "n_control": len(b)}
IndCounts(df, method) ==
    [method |-> method,
     n_patient |-> Cardinality(GroupValues(df, method, "patient")),
     n_control |-> Cardinality(GroupValues(df, method, "control"))]

IndRuns ==
    TestsRun(inp.has_scipy, GroupValues(inp.df, inp.method, "patient"),
             GroupValues(inp.df, inp.method, "control"))

InitInd ==
    /\ pc = "call"
    /\ inp \in [df : StatTables, method : StatMethods, has_scipy : BOOLEAN]
    /\ out = None
    /\ BatchIdle

\* The else branch: all four statistics NaN.
IndSkipsTests ==
    /\ pc = "call"
    /\ ~IndRuns
    /\ out' = [res |-> IndCounts(inp.df, inp.method)
                        @@ [mwU |-> "NaN", mwP |-> "NaN", t |-> "NaN", tp |-> "NaN"],
               lib |-> [mw |-> "none", tt |-> "none"]]
    /\ pc' = "ret"
    /\ UNCHANGED <<inp, batchVars>>

\* stats.mannwhitneyu returns
MannWhitneyReturns ==
    /\ pc = "call"
    /\ IndRuns
    /\ \E u \in {"value", "NaN"} :
          out' = [res |-> IndCounts(inp.df, inp.method) @@ [mwU |-> u, mwP |-> u],
                  lib |-> [mw |-> u, tt |-> "none"]]
    /\ pc' = "ttest"
    /\ UNCHANGED <<inp, batchVars>>

\* stats.mannwhitneyu raises: except Exception
MannWhitneyRaises ==
    /\ pc = "call"
    /\ IndRuns
    /\ out' = [res |-> IndCounts(inp.df, inp.method) @@ [mwU |-> "NaN", mwP |-> "NaN"],
               lib |-> [mw |-> "raise", tt |-> "none"]]
    /\ pc' = "ttest"
    /\ UNCHANGED <<inp, batchVars>>

\* stats.ttest_ind returns
TtestIndReturns ==
    /\ pc = "ttest"
    /\ \E t \in {"value", "NaN"} :
          out' = [res |-> out.res @@ [t |-> t, tp |-> t],
                  lib |-> [out.lib EXCEPT !.tt = t]]
    /\ pc' = "ret"
    /\ UNCHANGED <<inp, batchVars>>

\* stats.ttest_ind raises: except Exception
TtestIndRaises ==
    /\ pc = "ttest"
    /\ out' = [res |-> out.res @@ [t |-> "NaN", tp |-> "NaN"],
               lib |-> [out.lib EXCEPT !.tt = "raise"]]
    /\ pc' = "ret"
    /\ UNCHANGED <<inp, batchVars>>

NextInd ==
    \/ IndSkipsTests
    \/ MannWhitneyReturns
    \/ MannWhitneyRaises
    \/ TtestIndReturns
    \/ TtestIndRaises

SpecInd == InitInd /\ [][NextInd]_vars

\* The subjects of a group with a value of the metric under a method.
ValuedSubjects(df, method, grp) ==
    {i \in 1..MaxSubjects :
        \E r \in df : /\ r.subject = i /\ r.method = method
                      /\ r.group = grp /\ r.v.k = "fin"}

\* What a test leaves in its two fields: NaN when it raised, else what the
\* library returned.
LeftBy(outcome) == IF outcome = "raise" THEN "NaN" ELSE outcome

\* C16: mannwhitney_and_ttest_ind always returns a record with n_patient
\* and n_control, the numbers of non-missing values of the metric in the
\* two groups under the method; mwU, mwP, t and tp are all NaN unless scipy
\* is there and both numbers exceed 1; and a test that raises leaves NaN in
\* its own two fields only.
C16_GracefulTests ==
    /\ pc \in {"call", "ttest", "ret"}
    /\ pc = "ret" =>
          /\ DOMAIN out.res =
                {"method", "n_patient", "n_control", "mwU", "mwP", "t", "tp"}
          /\ out.res.n_patient
                = Cardinality(ValuedSubjects(inp.df, inp.method, "patient"))
          /\ out.res.n_control
                = Cardinality(ValuedSubjects(inp.df, inp.method, "control"))
          /\ ~(inp.has_scipy /\ out.res.n_patient > 1 /\ out.res.n_control > 1) =>
                /\ out.res.mwU = "NaN" /\ out.res.mwP = "NaN"
                /\ out.res.t = "NaN" /\ out.res.tp = "NaN"
          /\ out.lib.mw # "none" =>
                /\ out.res.mwU = LeftBy(out.lib.mw) /\ out.res.mwP = LeftBy(out.lib.mw)
                /\ out.res.t = LeftBy(out.lib.tt) /\ out.res.tp = LeftBy(out.lib.tt)

\* C16's case: Mann-Whitney raised and the t-test's values are in the
\* record, for two patients and two controls, in a table that has a row
\* with a missing value.
C16_Witness ==
    /\ pc = "ret"
    /\ out.lib.mw = "raise"
    /\ out.res.mwU = "NaN"
    /\ out.res.t = "value"
    /\ out.res.n_patient = 2
    /\ out.res.n_control = 2
    /\ \E r \in inp.df : r.v.k = "nan"

-----------------------------------------------------------------------------
(* analyze_metrics.py: wilcoxon_and_paired_t.  out holds the records       *)
(* appended so far and the record being filled.                            *)

PairedGroups == <<"ALL", "patient", "control">>

\* df_in for the pooled record, df_in[df_in["group"] == grp] for a group's
RowsOfGroup(df, grp) == IF grp = "ALL" THEN df ELSE {r \in df : r.group = grp}

\* The columns of pivot_table(index=["subject"], columns="method", ...):
\* the methods with a value of the metric in some row; pivot_table drops a
\* column that holds no value, and the pivot of no rows has no column.
PivotColumns(d) == {m \in StatMethods : \E r \in d : r.method = m /\ r.v.k = "fin"}

\* The rows of piv.dropna(subset=["ACT", "TREKKER"], how="any"): the
\* subjects with a value under both methods.
PairRows(d) ==
    {i \in 1..MaxSubjects :
        \A m \in StatMethods : \E r \in d : r.subject = i /\ r.method = m /\ r.v.k = "fin"}

\* The group whose record is built next.
PairedGroup == PairedGroups[Len(out.records) + 1]

PairedRows == RowsOfGroup(inp.df, PairedGroup)

InitPaired ==
    /\ pc = "pivot"
    /\ inp \in [df : StatTables, has_scipy : BOOLEAN]
    /\ out = [records |-> <<>>, res |-> <<>>]
    /\ BatchIdle

\* dropna(subset=["ACT", "TREKKER"]) on a pivot that lacks one of the two
\* columns raises KeyError, which nothing catches.
PivotRaises ==
    /\ pc = "pivot"
    /\ Len(out.records) < 3
    /\ PivotColumns(PairedRows) # StatMethods
    /\ pc' = "crashed"
    /\ UNCHANGED <<inp, out, batchVars>>

\* The else branch: the record with all four statistics NaN.
PairedSkipsTests ==
    /\ pc = "pivot"
    /\ Len(out.records) < 3
    /\ PivotColumns(PairedRows) = StatMethods
    /\ ~(inp.has_scipy /\ Cardinality(PairRows(PairedRows)) > 1)
    /\ out' = [out EXCEPT !.records = Append(@,
                  [group |-> PairedGroup, n_pairs |-> Cardinality(PairRows(PairedRows)),
                   wilcoxonW |-> "NaN", wilcoxonP |-> "NaN", t |-> "NaN", tp |-> "NaN"])]
    /\ UNCHANGED <<pc, inp, batchVars>>

\* stats.wilcoxon returns
WilcoxonReturns ==
    /\ pc = "pivot"
    /\ Len(out.records) < 3
    /\ PivotColumns(PairedRows) = StatMethods
    /\ inp.has_scipy /\ Cardinality(PairRows(PairedRows)) > 1
    /\ \E w \in {"value", "NaN"} :
          out' = [out EXCEPT !.res =
                    [group |-> PairedGroup, n_pairs |-> Cardinality(PairRows(PairedRows)),
                     wilcoxonW |-> w, wilcoxonP |-> w]]
    /\ pc' = "ttest_rel"
    /\ UNCHANGED <<inp, batchVars>>

\* stats.wilcoxon raises: except Exception
WilcoxonRaises ==
    /\ pc = "pivot"
    /\ Len(out.records) < 3
    /\ PivotColumns(PairedRows) = StatMethods
    /\ inp.has_scipy /\ Cardinality(PairRows(PairedRows)) > 1
    /\ out' = [out EXCEPT !.res =
                 [group |-> PairedGroup, n_pairs |-> Cardinality(PairRows(PairedRows)),
                  wilcoxonW |-> "NaN", wilcoxonP |-> "NaN"]]
    /\ pc' = "ttest_rel"
    /\ UNCHANGED <<inp, batchVars>>

\* stats.ttest_rel returns, and the record is appended
TtestRelReturns ==
    /\ pc = "ttest_rel"
    /\ \E t \in {"value", "NaN"} :
          out' = [records |-> Append(out.records, out.res @@ [t |-> t, tp |-> t]),
                  res |-> <<>>]
    /\ pc' = "pivot"
    /\ UNCHANGED <<inp, batchVars>>

\* stats.ttest_rel raises: except Exception, and the record is appended
TtestRelRaises ==
    /\ pc = "ttest_rel"
    /\ out' = [records |-> Append(out.records, out.res @@ [t |-> "NaN", tp |-> "NaN"]),
               res |-> <<>>]
    /\ pc' = "pivot"
    /\ UNCHANGED <<inp, batchVars>>

\* return pd.DataFrame.from_records(records)
PairedReturns ==
    /\ pc = "pivot"
    /\ Len(out.records) = 3
    /\ pc' = "ret"
    /\ UNCHANGED <<inp, out, batchVars>>

NextPaired ==
    \/ PivotRaises
    \/ PairedSkipsTests
    \/ WilcoxonReturns
    \/ WilcoxonRaises
    \/ TtestRelReturns
    \/ TtestRelRaises
    \/ PairedReturns

SpecPaired == InitPaired /\ [][NextPaired]_vars

\* The subjects of a group ("ALL": of any) with a value under both methods.
SubjectsWithBoth(df, grp) ==
    {i \in 1..MaxSubjects :
        /\ grp # "ALL" => GroupOfSubject(i) = grp
        /\ \E r \in df : r.subject = i /\ r.method = "ACT" /\ r.v.k = "fin"
        /\ \E r \in df : r.subject = i /\ r.method = "TREKKER" /\ r.v.k = "fin"}

\* C17 (as claimed): for every table wilcoxon_and_paired_t returns three
\* records, for "ALL", "patient" and "control" in this order, each with
\* n_pairs the number of the group's subjects that have a value under both
\* methods, and with NaN statistics whenever n_pairs <= 1, also when the
\* table has no row of a method or of a group.
C17_PairedRecords ==
    /\ pc # "crashed"
    /\ Len(out.records) <= 3
    /\ pc = "ret" => Len(out.records) = 3
    /\ \A k \in 1..Len(out.records) :
          /\ out.records[k].group = PairedGroups[k]
          /\ out.records[k].n_pairs
                = Cardinality(SubjectsWithBoth(inp.df, PairedGroups[k]))
          /\ out.records[k].n_pairs <= 1 =>
                /\ out.records[k].wilcoxonW = "NaN" /\ out.records[k].wilcoxonP = "NaN"
                /\ out.records[k].t = "NaN" /\ out.records[k].tp = "NaN"

-----------------------------------------------------------------------------
(* load_csv.py: flatten_matrix and append_subject.  A matrix is a sequence *)
(* of rows; numpy indices start at 0.  out holds the last result of        *)
(* flatten_matrix, long_rows and wide_rows.                                *)

MaxFlatN == 3

MaxBinN == 2

use_upper_triangle_only == TRUE

include_diagonal == FALSE

\* np.indices(mat.shape) ravelled: every cell <<row, col>>, row by row
RavelCells(n) == [q \in 1..(n * n) |-> <<(q - 1) \div n, (q - 1) % n>>]

\* np.triu_indices(n, k): the cells with col - row >= k, row by row
TriuCells(n, k) == SelectSeq(RavelCells(n), LAMBDA cell : cell[2] - cell[1] >= k)

\* flatten_matrix with the two values of k exchanged
flatten_matrix_swapped(mat, upper_only, keep_diag) ==
    LET n == Len(mat)
        cells == IF upper_only
                 THEN TriuCells(n, IF keep_diag THEN 1 ELSE 0)
                 ELSE RavelCells(n)
    IN  [vals |-> [q \in 1..Len(cells) |-> mat[cells[q][1] + 1][cells[q][2] + 1]],
         r |-> [q \in 1..Len(cells) |-> cells[q][1]],
         c |-> [q \in 1..Len(cells) |-> cells[q][2]]]

flatten_matrix(mat, upper_only, keep_diag) ==
    LET n == Len(mat)
        cells == IF upper_only
                 THEN TriuCells(n, IF keep_diag THEN 0 ELSE 1)
                 ELSE RavelCells(n)
    IN  [vals |-> [q \in 1..Len(cells) |-> mat[cells[q][1] + 1][cells[q][2] + 1]],
         r |-> [q \in 1..Len(cells) |-> cells[q][1]],
         c |-> [q \in 1..Len(cells) |-> cells[q][2]]]

DecimalDigits == <<"0", "1", "2", "3", "4", "5", "6", "7", "8", "9">>

RECURSIVE IntText(_)
\* the decimal text of int(r), r >= 0
IntText(x) ==
    IF x < 10 THEN <<DecimalDigits[x + 1]>>
    ELSE IntText(x \div 10) \o <<DecimalDigits[(x % 10) + 1]>>

\* f"e_{int(r)}_{int(c)}"
EdgeColumn(r, c) == <<"e", "_">> \o IntText(r) \o <<"_">> \o IntText(c)

\* The long-format rows of one call of append_subject.
LongRowsOf(subj, method, group, flat) ==
    [q \in 1..Len(flat.vals) |->
        [subject |-> subj, method |-> method, edge_row |-> flat.r[q],
         edge_col |-> flat.c[q], weight |-> Fin(flat.vals[q]), group |-> group]]

\* The e_<r>_<c> entries of wide_entry: a later assignment to a name
\* replaces an earlier one.
WideEdges(flat) ==
    LET names == {EdgeColumn(flat.r[q], flat.c[q]) : q \in 1..Len(flat.vals)}
        Last(name) == CHOOSE q \in 1..Len(flat.vals) :
                         /\ EdgeColumn(flat.r[q], flat.c[q]) = name
                         /\ \A q2 \in 1..Len(flat.vals) :
                               EdgeColumn(flat.r[q2], flat.c[q2]) = name => q2 <= q
    IN  [name \in names |-> Fin(flat.vals[Last(name)])]

\* Square matrices: every 0/1 matrix up to MaxBinN rows, and the ones up
\* to MaxFlatN rows whose cells are all different.
FlatMatrices ==
    UNION {[1..n -> [1..n -> 0..1]] : n \in 1..MaxBinN}
      \cup {[i \in 1..n |-> [j \in 1..n |-> (i - 1) * n + j + 1]] : n \in 1..MaxFlatN}

InitFlat ==
    /\ pc = "call"
    /\ inp \in [mat : FlatMatrices, upper_only : BOOLEAN, keep_diag : BOOLEAN,
                subj : {"INsIDER_C1"}, group : {"control"}]
    /\ out = [flat |-> <<>>, long_rows |-> <<>>, wide_rows |-> <<>>]
    /\ BatchIdle

\* a call of flatten_matrix with the flags of the input
FlattenCall ==
    /\ pc = "call"
    /\ out' = [out EXCEPT !.flat = flatten_matrix(inp.mat, inp.upper_only, inp.keep_diag)]
    /\ pc' = "append"
    /\ UNCHANGED <<inp, batchVars>>

\* append_subject for one method of the subject
AppendSubject ==
    /\ pc = "append"
    /\ \E method \in StatMethods :
          /\ \A k \in 1..Len(out.wide_rows) : out.wide_rows[k].method # method
          /\ LET flat == flatten_matrix(inp.mat, use_upper_triangle_only, include_diagonal)
             IN  out' = [out EXCEPT
                           !.long_rows = @ \o LongRowsOf(inp.subj, method, inp.group, flat),
                           !.wide_rows = Append(@,
                               [subject |-> inp.subj, method |-> method,
                                group |-> inp.group, e |-> WideEdges(flat)])]
    /\ UNCHANGED <<pc, inp, batchVars>>

NextFlat ==
    \/ FlattenCall
    \/ AppendSubject

SpecFlat == InitFlat /\ [][NextFlat]_vars

\* The cells <<row, col>> the flags select in an n x n matrix.
SelectedCells(n, upper_only, keep_diag) ==
    {cell \in (0..(n - 1)) \X (0..(n - 1)) :
        upper_only => IF keep_diag THEN cell[1] <= cell[2] ELSE cell[1] < cell[2]}

SelectedCount(n, upper_only, keep_diag) ==
    IF ~upper_only THEN n * n
    ELSE IF keep_diag THEN (n * (n + 1)) \div 2 ELSE (n * (n - 1)) \div 2

FlatCovers(flat, mat, upper_only, keep_diag) ==
    /\ Len(flat.r) = Len(flat.vals) /\ Len(flat.c) = Len(flat.vals)
    /\ \A q \in 1..Len(flat.vals) : flat.vals[q] = mat[flat.r[q] + 1][flat.c[q] + 1]
    /\ \A q1, q2 \in 1..Len(flat.vals) :
          (flat.r[q1] = flat.r[q2] /\ flat.c[q1] = flat.c[q2]) => q1 = q2
    /\ {<<flat.r[q], flat.c[q]>> : q \in 1..Len(flat.vals)}
          = SelectedCells(Len(mat), upper_only, keep_diag)
    /\ Len(flat.vals) = SelectedCount(Len(mat), upper_only, keep_diag)

\* C18: flatten_matrix returns vals[k] = mat[r[k]][c[k]] for every k and
\* covers each selected cell once: the n(n-1)/2 cells above the diagonal, the
\* n(n+1)/2 cells on or above it, or all n*n cells; for each subject and
\* method append_subject adds one long row per returned cell and exactly one
\* wide row, whose e_<r>_<c> columns hold the weights of the long rows.
C18_FlattenAndAppend ==
    /\ pc = "append" => FlatCovers(out.flat, inp.mat, inp.upper_only, inp.keep_diag)
    /\ \A method \in StatMethods :
          LET long == SelectSeq(out.long_rows, LAMBDA row : row.method = method)
              wide == SelectSeq(out.wide_rows, LAMBDA row : row.method = method)
              flat == [vals |-> [q \in 1..Len(long) |-> long[q].weight.v],
                       r |-> [q \in 1..Len(long) |-> long[q].edge_row],
                       c |-> [q \in 1..Len(long) |-> long[q].edge_col]]
          IN  /\ Len(wide) <= 1
              /\ Len(wide) = 0 => Len(long) = 0
              /\ Len(wide) = 1 =>
                    /\ FlatCovers(flat, inp.mat, use_upper_triangle_only, include_diagonal)
                    /\ DOMAIN wide[1].e
                          = {EdgeColumn(long[q].edge_row, long[q].edge_col) : q \in 1..Len(long)}
                    /\ Cardinality(DOMAIN wide[1].e) = Len(long)
                    /\ \A q \in 1..Len(long) :
                          /\ long[q].weight.k = "fin"
                          /\ wide[1].e[EdgeColumn(long[q].edge_row, long[q].edge_col)]
                                = long[q].weight
                          /\ long[q].subject = wide[1].subject
                          /\ long[q].group = wide[1].group

\* both methods of a subject with a 3 x 3 matrix of different cells were
\* appended after a call that kept the diagonal
C18_Witness ==
    /\ pc = "append"
    /\ Len(out.wide_rows) = 2
    /\ Len(inp.mat) = 3
    /\ inp.mat[1][2] # inp.mat[2][1]
    /\ inp.upper_only /\ inp.keep_diag
    /\ Len(out.flat.vals) = 6
    /\ Len(out.long_rows) = 6

-----------------------------------------------------------------------------
(* The batch drivers when the loader raises.                               *)

\* The per-node files on disk: node_strength.py writes
\* <subj>_<method>_strength.csv in the loop body, after the strengths are
\* computed and before rows.append; no other script writes in its loop.
PerNodeFiles ==
    IF script = "node_strength"
    THEN {rows[k].file : k \in 1..Len(rows)}
           \cup (IF pc = "append" THEN {cur.file} ELSE {})
    ELSE {}

\* C19 (as claimed): in every metric script, when the loader raises, the
\* batch ends at that file, no output CSV is written and nothing computed
\* for the earlier files is on disk.
C19_NothingPersisted ==
    exc = "load" =>
        /\ pc = "crashed"
        /\ ~ENABLED Next
        /\ Len(rows) = fileNo - 1
        /\ csvWrites = 0
        /\ csv = <<>>
        /\ PerNodeFiles = {}

\* C19 (amended): when the loader raises, the batch ends at that file, the
\* summary CSV is not written and the rows of the earlier files, held in
\* memory, never reach it; only node_strength.py leaves output behind, the
\* per-node file of every earlier file.
C19_NoSummaryPersisted ==
    exc = "load" =>
        /\ pc = "crashed"
        /\ ~ENABLED Next
        /\ Len(rows) = fileNo - 1
        /\ csvWrites = 0
        /\ csv = <<>>
        /\ PerNodeFiles = IF script = "node_strength"
                          THEN {files[k] : k \in 1..(fileNo - 1)} ELSE {}

\* global_efficiency.py computed the rows of two files and the loader
\* raised on the third
C19_Witness ==
    /\ script = "global_efficiency"
    /\ exc = "load"
    /\ pc = "crashed"
    /\ fileNo = 3
    /\ Len(rows) = 2
    /\ csvWrites = 0

=============================================================================
